---------------------------- MODULE Spec2Model ----------------------------
(***************************************************************************)
(* A model of box, the package manager for native Neutron modules          *)
(* (yasakei/nt-box): the Installer (src/src/installer.cpp), the parts of   *)
(* the Registry, Builder and Platform it calls, and the CLI verbs of       *)
(* src/src/main.cpp.                                                       *)
(*                                                                         *)
(* Text (module names, versions, the lines of .quark) is a sequence of     *)
(* one-character strings, so that find, trimming and indexing are          *)
(* computed as the code computes them.  A file that may be absent is a     *)
(* sequence of length at most one: <<>> when absent, <<content>> otherwise.*)
(***************************************************************************)
EXTENDS Integers, Sequences, FiniteSets, TLC

VARIABLES
    platform,   \* the OS the binary was compiled for (Platform::detectOS)
    store,      \* [global -> [name -> directory <installDir>/<name>/]]
    quark,      \* the file ./.quark: <<>> or <<bytes>>
    last,       \* what the last call did and returned
    cwd,        \* the other files of the current directory: [name -> bytes]
    outFile,    \* the std::ofstream open on .quark: <<>> or <<its state>>
    registry    \* the Registry object and the documents its server holds

vars == <<platform, store, quark, last, cwd, outFile, registry>>

(***************************************************************************)
(* Bounds of the model.                                                    *)
(***************************************************************************)
\* lines of the .quark file a project starts with
MaxLines == 3
\* lines of .quark beyond which SpecQuark stops installing
MaxQuarkLines == 5

(***************************************************************************)
(* Text.                                                                   *)
(***************************************************************************)
\* std::string::npos, for 1-based positions
Npos == 0

Whitespace == {" ", "\t", "\r", "\n"}

\* std::string::find(needle) from the start: the 1-based position of the
\* first occurrence, Npos when there is none
Find(hay, needle) ==
    LET hits == { i \in 1..(Len(hay) - Len(needle) + 1) :
                    SubSeq(hay, i, i + Len(needle) - 1) = needle }
    IN  IF hits = {} THEN Npos
        ELSE CHOOSE i \in hits : \A j \in hits : i <= j

\* std::string::find(needle, from): the first occurrence at or after the
\* 1-based position from, Npos when there is none
FindFrom(hay, needle, from) ==
    LET hits == { i \in from..(Len(hay) - Len(needle) + 1) :
                    SubSeq(hay, i, i + Len(needle) - 1) = needle }
    IN  IF hits = {} THEN Npos
        ELSE CHOOSE i \in hits : \A j \in hits : i <= j

\* p < q for two results of find, npos being the largest size_t
Before(p, q) == p # Npos /\ (q = Npos \/ p < q)
\* find_first_not_of(" \t\r\n")
FindFirstNotOf(s) ==
    LET hits == { i \in 1..Len(s) : s[i] \notin Whitespace }
    IN  IF hits = {} THEN Npos
        ELSE CHOOSE i \in hits : \A j \in hits : i <= j

\* find_last_not_of(" \t\r\n")
FindLastNotOf(s) ==
    LET hits == { i \in 1..Len(s) : s[i] \notin Whitespace }
    IN  IF hits = {} THEN Npos
        ELSE CHOOSE i \in hits : \A j \in hits : i >= j

\* the trimmed copy of a line that the .quark update computes
Trimmed(line) ==
    IF FindFirstNotOf(line) # Npos
    THEN SubSeq(line, FindFirstNotOf(line), FindLastNotOf(line))
    ELSE <<>>

\* the lines std::getline yields from the bytes of a file: each line ends
\* at a "\n", which is dropped; bytes after the last "\n" are a last line
RECURSIVE GetLines(_)
GetLines(bytes) ==
    IF bytes = <<>> THEN <<>>
    ELSE LET nl == Find(bytes, <<"\n">>)
         IN  IF nl = Npos THEN <<bytes>>
             ELSE <<SubSeq(bytes, 1, nl - 1)>>
                    \o GetLines(SubSeq(bytes, nl + 1, Len(bytes)))

\* outFile << l << "\n" for every line
RECURSIVE PutLines(_)
PutLines(lines) ==
    IF lines = <<>> THEN <<>>
    ELSE Head(lines) \o <<"\n">> \o PutLines(Tail(lines))

DepHeader == <<"[", "d", "e", "p", "e", "n", "d", "e", "n", "c", "i", "e", "s", "]">>

(***************************************************************************)
(* Platform (src/src/platform.cpp).                                        *)
(***************************************************************************)
Platforms == {"Linux", "Windows", "macOS", "Unknown"}

isLinux(os) == os = "Linux"
isWindows(os) == os = "Windows"
isMacOS(os) == os = "macOS"

getLibraryExtension(os) ==
    CASE os = "Linux" -> ".so"
      [] os = "Windows" -> ".dll"
      [] os = "macOS" -> ".dylib"
      [] OTHER -> ".so"

getEntryKey(os) ==
    CASE os = "Linux" -> "entry-linux"
      [] os = "Windows" -> "entry-win"
      [] os = "macOS" -> "entry-mac"
      [] OTHER -> "entry-linux"

(***************************************************************************)
(* The project manifest update of Installer::install.                      *)
(***************************************************************************)
\* the reading loop: copies the lines, replacing every line inside
\* [dependencies] that starts with <name>=
RECURSIVE ReadLoop(_, _, _, _, _, _)
ReadLoop(lines, i, inDependencies, depFound, moduleName, depEntry) ==
    IF i > Len(lines) THEN [lines |-> <<>>, depFound |-> depFound]
    ELSE LET line == lines[i]
             trimmed == Trimmed(line)
         IN  IF trimmed = DepHeader
             THEN LET rest == ReadLoop(lines, i + 1, TRUE, depFound,
                                       moduleName, depEntry)
                  IN  [lines |-> <<line>> \o rest.lines,
                       depFound |-> rest.depFound]
             ELSE LET inDep == IF Len(trimmed) > 0 /\ trimmed[1] = "["
                               THEN FALSE ELSE inDependencies
                      hit == inDep /\ Find(trimmed, moduleName \o <<"=">>) = 1
                      rest == ReadLoop(lines, i + 1, inDep, depFound \/ hit,
                                       moduleName, depEntry)
                  IN  [lines |-> <<IF hit THEN depEntry ELSE line>> \o rest.lines,
                       depFound |-> rest.depFound]

hasDepSection(lines) ==
    \E i \in 1..Len(lines) : Find(lines[i], DepHeader) # Npos

\* the loop that looks for the end of the dependencies section: the
\* 1-based position to insert before, Len(lines) + 1 for the end
RECURSIVE FindInsertPos(_, _, _)
FindInsertPos(lines, i, inDep) ==
    IF i > Len(lines) THEN Len(lines) + 1
    ELSE IF Find(lines[i], DepHeader) # Npos
         THEN FindInsertPos(lines, i + 1, TRUE)
         ELSE IF inDep /\ Len(lines[i]) > 0 /\ lines[i][1] = "["
              THEN i
              ELSE FindInsertPos(lines, i + 1, inDep)

InsertAt(lines, pos, entry) ==
    SubSeq(lines, 1, pos - 1) \o <<entry>> \o SubSeq(lines, pos, Len(lines))

\* the lines written back for the lines read
UpdateLines(read, moduleName, versionToInstall) ==
    LET depEntry == moduleName \o <<"=">> \o versionToInstall
        pass == ReadLoop(read, 1, FALSE, FALSE, moduleName, depEntry)
        lines == pass.lines
    IN  IF pass.depFound THEN lines
        ELSE IF ~hasDepSection(lines)
             THEN lines \o << <<>>, DepHeader, depEntry >>
             ELSE InsertAt(lines, FindInsertPos(lines, 1, FALSE), depEntry)

\* the bytes of .quark after the update
UpdateQuark(bytes, moduleName, versionToInstall) ==
    PutLines(UpdateLines(GetLines(bytes), moduleName, versionToInstall))


(***************************************************************************)
(* The world outside the program: what the registry serves, what a cloned  *)
(* repository holds, and which external calls may fail.  A world W bounds  *)
(* the outcomes a call draws from.                                         *)
(***************************************************************************)
A == <<"a">>
B == <<"b">>
Names == {A, B}

V1 == <<"1">>
V2 == <<"2">>
V3 == <<"3">>

NoGit == [url |-> <<>>, ref |-> <<>>]

\* version 1 of a module: binaries for Linux and Windows only
VBinary ==
    [description |-> <<"f", "i", "r", "s", "t">>,
     entryLinux |-> <<"h", "t", "t", "p", "s", ":", "/", "/", "x", "/", "m", "-", "1", ".", "s", "o">>,
     entryWin |-> <<"h", "t", "t", "p", "s", ":", "/", "/", "x", "/", "m", "-", "1", ".", "d", "l", "l">>,
     entryMac |-> <<>>, git |-> NoGit]
\* version 2: a git repository and a ref, no binary
VGit ==
    [description |-> <<"s", "e", "c", "o", "n", "d">>, entryLinux |-> <<>>, entryWin |-> <<>>,
     entryMac |-> <<>>,
     git |-> [url |-> <<"h", "t", "t", "p", "s", ":", "/", "/", "g", "i", "t", "/", "m">>, ref |-> <<"v", "2">>]]
\* a git repository without ref besides binaries for every OS
VBoth ==
    [description |-> <<"b", "o", "t", "h">>,
     entryLinux |-> <<"h", "t", "t", "p", "s", ":", "/", "/", "y", "/", "m", ".", "s", "o">>,
     entryWin |-> <<"h", "t", "t", "p", "s", ":", "/", "/", "y", "/", "m", ".", "d", "l", "l">>,
     entryMac |-> <<"h", "t", "t", "p", "s", ":", "/", "/", "y", "/", "m", ".", "d", "y", "l", "i", "b">>,
     git |-> [url |-> <<"h", "t", "t", "p", "s", ":", "/", "/", "g", "i", "t", "/", "m">>, ref |-> <<>>]]
\* neither a binary nor a repository
VNone ==
    [description |-> <<>>, entryLinux |-> <<>>, entryWin |-> <<>>,
     entryMac |-> <<>>, git |-> NoGit]

\* the parsed content of a manifest document
ManifestOne == [latest |-> V2, versions |-> (V1 :> VBinary) @@ (V2 :> VGit)]
\* a later state of the registry, whose latest is no key of versions
ManifestTwo == [latest |-> V3, versions |-> (V1 :> VBoth) @@ (V2 :> VNone)]

\* the registry the constructor names
RegistryURL == <<"h", "t", "t", "p", "s", ":", "/", "/", "r", "a", "w", ".", "g", "i", "t", "h", "u", "b", "u", "s", "e", "r", "c", "o", "n", "t", "e", "n", "t", ".", "c", "o", "m", "/", "n", "e", "u", "t", "r", "o", "n", "-", "m", "o", "d", "u", "l", "e", "s", "/", "n", "u", "r", "/", "r", "e", "f", "s", "/", "h", "e", "a", "d", "s", "/", "m", "a", "i", "n">>

IndexNone == [n \in {} |-> <<>>]
IndexA == (A :> RegistryURL \o <<"/", "m", "o", "d", "u", "l", "e", "s", "/", "a", ".", "j", "s", "o", "n">>)
IndexAB == (A :> RegistryURL \o <<"/", "m", "o", "d", "u", "l", "e", "s", "/", "a", ".", "j", "s", "o", "n">>)
             @@ (B :> RegistryURL \o <<"/", "m", "o", "d", "u", "l", "e", "s", "/", "b", ".", "j", "s", "o", "n">>)

\* the source files a repository may hold, by path below its root
RepoFiles == {"native.cpp", "src/native.cpp", "src/main.cpp",
              "source/native.cpp", "lib/native.cpp"}

Faults == {"mkdir", "download", "openLib", "mktemp", "clone", "checkout",
           "shim", "cl", "compile", "openMeta", "cleanup", "readQuark",
           "writeQuark", "remove"}

\* everything but a failing cleanup, which Spec leaves to SpecTmp, and a
\* .quark that cannot be read
World ==
    [indexes |-> {IndexNone, IndexA},
     manifests |-> {<<>>, <<ManifestOne>>, <<ManifestTwo>>},
     repos |-> {{}, {"native.cpp"}, {"src/native.cpp"}, {"src/main.cpp"}},
     clang |-> BOOLEAN,
     faults |-> Faults \ {"cleanup", "readQuark"}]

\* the source-build path with every outcome of its steps
TmpWorld ==
    [indexes |-> {IndexA},
     manifests |-> {<<ManifestOne>>, <<ManifestTwo>>},
     repos |-> {{}, {"native.cpp"}},
     clang |-> {TRUE},
     faults |-> {"mktemp", "clone", "checkout", "compile", "cleanup"}]

\* a registry that serves two modules, and no failure
QuietWorld ==
    [indexes |-> {IndexAB},
     manifests |-> {<<ManifestOne>>},
     repos |-> {{"native.cpp"}},
     clang |-> {TRUE},
     faults |-> {}]

\* whether external call f succeeds: it may fail only in a world that says so
May(W, f) == IF f \in W.faults THEN {TRUE, FALSE} ELSE {TRUE}

(***************************************************************************)
(* The stores.  A directory <installDir>/<name>/ holds the library         *)
(* <name><ext>, metadata.json and the .tmpN build directories.             *)
(***************************************************************************)
Scopes == BOOLEAN       \* global (TRUE) or local (FALSE)

\* the attempts of the temporary directory loop
TmpAttempts == 10
TmpIds == 0..(TmpAttempts - 1)

NoDir == [exists |-> FALSE, lib |-> <<>>, meta |-> <<>>, tmp |-> {}]
EmptyDir == [exists |-> TRUE, lib |-> <<>>, meta |-> <<>>, tmp |-> {}]

EmptyStore == [g \in Scopes |-> [n \in Names |-> NoDir]]

\* a current directory that holds no file besides .quark
NoFiles == [f \in {} |-> <<>>]

\* a variant that creates nothing
ensureNothing(dir) == dir

\* create_directories(path): creates what is missing, keeps what is there
ensureDirectory(dir) == IF dir.exists THEN dir ELSE EmptyDir

\* stat(moduleDir) == 0
isInstalled(st, moduleName, global) == st[global][moduleName].exists

(***************************************************************************)
(* Registry (src/src/registry.cpp).  The index is the moduleIndex map that *)
(* parseIndex leaves; a manifest body is <<>> when the download came back  *)
(* empty and <<the parsed document>> otherwise.                            *)
(***************************************************************************)
NoVersions == [v \in {} |-> VNone]

\* fetchIndex: false when nothing was downloaded or no entry was parsed
fetchIndex(moduleIndex) == DOMAIN moduleIndex # {}

\* the registry a local mirror would name
LocalRegistryURL == <<"f", "i", "l", "e", ":", "/", "/", "/", "r">>

IsLocal(registryURL) == SubSeq(registryURL, 1, 7) = <<"f", "i", "l", "e", ":", "/", "/">>

\* moduleURL[0] == '.': the first character, '\0' for the empty string
StartsWithDot(url) == url # <<>> /\ url[1] = "."

\* the key parseIndex looks for
ModulesKey == <<"\"", "m", "o", "d", "u", "l", "e", "s", "\"">>

\* the loop of parseIndex from position pos on, index being the entries
\* stored so far
RECURSIVE ParseEntries(_, _, _, _)
ParseEntries(registryURL, content, pos, index) ==
    LET nameStart == FindFrom(content, <<"\"">>, pos)
        nameEnd == FindFrom(content, <<"\"">>, nameStart + 1)
        urlStart == FindFrom(content, <<"\"">>, nameEnd + 1)
        urlEnd == FindFrom(content, <<"\"">>, urlStart + 1)
        moduleName == SubSeq(content, nameStart + 1, nameEnd - 1)
        moduleURL == SubSeq(content, urlStart + 1, urlEnd - 1)
        resolved == IF StartsWithDot(moduleURL)
                    THEN registryURL \o Tail(moduleURL)
                    ELSE moduleURL
        stored == [n \in DOMAIN index \cup {moduleName} |->
                     IF n = moduleName THEN resolved ELSE index[n]]
    IN  IF pos > Len(content) THEN index
        ELSE IF nameStart = Npos THEN index
        ELSE IF nameEnd = Npos THEN index
        ELSE IF urlStart = Npos THEN index
        ELSE IF urlEnd = Npos THEN index
        ELSE IF Before(FindFrom(content, <<"}">>, urlEnd + 1),
                       FindFrom(content, <<"\"">>, urlEnd + 1))
             THEN stored
             ELSE ParseEntries(registryURL, content, urlEnd + 1, stored)

\* a variant that resolves again the entries it knew before
parseIndexAgain(registryURL, moduleIndex, content) ==
    LET modulesPos == Find(content, ModulesKey)
        openBrace == FindFrom(content, <<"{">>, modulesPos)
        parsed == IF modulesPos = Npos \/ openBrace = Npos THEN IndexNone
                  ELSE ParseEntries(registryURL, content, openBrace + 1,
                                    IndexNone)
    IN  [n \in DOMAIN parsed |->
            IF n \in DOMAIN moduleIndex THEN registryURL \o parsed[n]
            ELSE parsed[n]]

\* parseIndex: the moduleIndex it leaves; the previous one is cleared first
parseIndex(registryURL, moduleIndex, content) ==
    LET modulesPos == Find(content, ModulesKey)
        openBrace == FindFrom(content, <<"{">>, modulesPos)
    IN  IF modulesPos = Npos \/ openBrace = Npos THEN IndexNone
        ELSE ParseEntries(registryURL, content, openBrace + 1, IndexNone)

\* a variant that prepends the base to every stored URL
getModuleURLAlways(registryURL, moduleIndex, moduleName) ==
    IF moduleName \in DOMAIN moduleIndex
    THEN registryURL \o moduleIndex[moduleName]
    ELSE <<>>

getModuleURL(registryURL, moduleIndex, moduleName) ==
    IF moduleName \in DOMAIN moduleIndex
    THEN LET modulePath == moduleIndex[moduleName]
         IN  IF IsLocal(registryURL)
             THEN IF StartsWithDot(modulePath)
                  THEN SubSeq(registryURL, 8, Len(registryURL))
                         \o Tail(modulePath)
                  ELSE modulePath
             ELSE IF StartsWithDot(modulePath)
                  THEN registryURL \o Tail(modulePath)
                  ELSE modulePath
    ELSE <<>>

\* the Registry object after construction, before any document is served
NewRegistry ==
    [registryURL |-> RegistryURL, index |-> <<>>, manifest |-> <<>>,
     moduleIndex |-> IndexNone, fetched |-> <<>>, answer |-> <<>>]

\* the characters of module names, in the order of their codes
Ascii == <<"0", "1", "2", "3", "4", "5", "6", "7", "8", "9", "A", "B", "C", "D", "E", "F", "G", "H", "I", "J", "K", "L", "M", "N", "O", "P", "Q", "R", "S", "T", "U", "V", "W", "X", "Y", "Z", "a", "b", "c", "d", "e", "f", "g", "h", "i", "j", "k", "l", "m", "n", "o", "p", "q", "r", "s", "t", "u", "v", "w", "x", "y", "z">>

Code(c) == CHOOSE i \in 1..Len(Ascii) : Ascii[i] = c

\* ::tolower
tolower(c) ==
    IF c \in {Ascii[i] : i \in 11..36} THEN Ascii[Code(c) + 26] ELSE c

\* std::transform(s.begin(), s.end(), s.begin(), ::tolower)
Lowered(s) == [i \in 1..Len(s) |-> tolower(s[i])]

\* operator< of std::string
RECURSIVE Less(_, _)
Less(s, t) ==
    IF t = <<>> THEN FALSE
    ELSE IF s = <<>> THEN TRUE
    ELSE IF s[1] # t[1] THEN Code(s[1]) < Code(t[1])
    ELSE Less(Tail(s), Tail(t))

\* the keys of a std::map in the order its iteration visits them
RECURSIVE InOrder(_)
InOrder(keys) ==
    IF keys = {} THEN <<>>
    ELSE LET first == CHOOSE k \in keys : \A o \in keys \ {k} : Less(k, o)
         IN  <<first>> \o InOrder(keys \ {first})

\* a variant that compares the names as they are spelled
searchExact(moduleIndex, query) ==
    SelectSeq(InOrder(DOMAIN moduleIndex),
              LAMBDA name : Find(name, query) # Npos)

search(moduleIndex, query) ==
    SelectSeq(InOrder(DOMAIN moduleIndex),
              LAMBDA name : Find(Lowered(name), Lowered(query)) # Npos)

listModules(moduleIndex) == InOrder(DOMAIN moduleIndex)
\* "\"" + key + "\""
Quoted(s) == <<"\"">> \o s \o <<"\"">>

\* the extractValue lambda of fetchModuleMetadata: the string that follows
\* the first "key" at or after startPos, anywhere up to the end of content
extractValue(content, key, startPos) ==
    LET pos == FindFrom(content, Quoted(key), startPos)
        colonPos == FindFrom(content, <<":">>, pos)
        valueStart == FindFrom(content, <<"\"">>, colonPos)
        valueEnd == FindFrom(content, <<"\"">>, valueStart + 1)
    IN  IF pos = Npos THEN <<>>
        ELSE IF colonPos = Npos THEN <<>>
        ELSE IF valueStart = Npos THEN <<>>
        ELSE IF valueEnd = Npos THEN <<>>
        ELSE SubSeq(content, valueStart + 1, valueEnd - 1)

\* the braces opened less the braces closed in content[from..to]
Balance(content, from, to) ==
    Cardinality({ j \in from..to : content[j] = "{" })
      - Cardinality({ j \in from..to : content[j] = "}" })

\* the brace counting loops: from position pos with count open braces,
\* <<the position the loop stops at, the count there>>; the loop runs
\* while pos is before limit and count is positive
CountBraces(content, pos, count, limit) ==
    LET closed == { i \in pos..(limit - 1) :
                      count + Balance(content, pos, i) <= 0 }
        first == CHOOSE i \in closed : \A j \in closed : i <= j
    IN  IF pos >= limit \/ count <= 0 THEN <<pos, count>>
        ELSE IF closed = {}
             THEN <<limit, count + Balance(content, pos, limit - 1)>>
             ELSE <<first + 1, 0>>

\* the loop over the keys of the versions object, versions being those
\* stored so far
RECURSIVE ParseVersions(_, _, _, _)
ParseVersions(content, pos, endOfVersions, versions) ==
    LET versionKeyStart == FindFrom(content, <<"\"">>, pos)
        versionKeyEnd == FindFrom(content, <<"\"">>, versionKeyStart + 1)
        versionNum == SubSeq(content, versionKeyStart + 1, versionKeyEnd - 1)
        versionObjStart2 == FindFrom(content, <<"{">>, versionKeyEnd)
        gitPos == FindFrom(content, Quoted(<<"g", "i", "t">>), versionObjStart2)
        gitObjStart == FindFrom(content, <<"{">>, gitPos)
        git == IF /\ gitPos # Npos
                  /\ Before(gitPos, FindFrom(content, <<"}">>, versionObjStart2))
                  /\ gitObjStart # Npos
               THEN [url |-> extractValue(content, <<"u", "r", "l">>, gitObjStart),
                     ref |-> extractValue(content, <<"r", "e", "f">>, gitObjStart)]
               ELSE NoGit
        versionMeta ==
            [description |-> extractValue(content, <<"d", "e", "s", "c", "r", "i", "p", "t", "i", "o", "n">>, versionObjStart2),
             entryLinux |-> extractValue(content, <<"e", "n", "t", "r", "y", "-", "l", "i", "n", "u", "x">>, versionObjStart2),
             entryWin |-> extractValue(content, <<"e", "n", "t", "r", "y", "-", "w", "i", "n">>, versionObjStart2),
             entryMac |-> extractValue(content, <<"e", "n", "t", "r", "y", "-", "m", "a", "c">>, versionObjStart2),
             git |-> git]
        stored == [v \in DOMAIN versions \cup {versionNum} |->
                     IF v = versionNum THEN versionMeta ELSE versions[v]]
    IN  IF pos >= endOfVersions THEN versions
        ELSE IF versionKeyStart = Npos \/ versionKeyStart >= endOfVersions
             THEN versions
        ELSE IF versionKeyEnd = Npos THEN versions
        ELSE IF versionObjStart2 = Npos THEN versions
        ELSE ParseVersions(content,
                           CountBraces(content, versionObjStart2 + 1, 1,
                                       endOfVersions)[1],
                           endOfVersions, stored)

\* the part of fetchModuleMetadata that parses a downloaded manifest
parseMetadata(content) ==
    LET versionsPos == Find(content, Quoted(<<"v", "e", "r", "s", "i", "o", "n", "s">>))
        versionObjStart == FindFrom(content, <<"{">>, versionsPos)
        closing == CountBraces(content, versionObjStart + 1, 1,
                               Len(content) + 1)
        endOfVersions == IF closing[2] = 0 THEN closing[1] - 1
                         ELSE Len(content) + 1
    IN  [description |-> extractValue(content, <<"d", "e", "s", "c", "r", "i", "p", "t", "i", "o", "n">>, 1),
         author |-> extractValue(content, <<"a", "u", "t", "h", "o", "r">>, 1),
         license |-> extractValue(content, <<"l", "i", "c", "e", "n", "s", "e">>, 1),
         repository |-> extractValue(content, <<"r", "e", "p", "o", "s", "i", "t", "o", "r", "y">>, 1),
         latest |-> extractValue(content, <<"l", "a", "t", "e", "s", "t">>, 1),
         versions |-> IF versionsPos = Npos \/ versionObjStart = Npos
                      THEN NoVersions
                      ELSE ParseVersions(content, versionObjStart + 1,
                                         endOfVersions, NoVersions)]
\* the ModuleMetadata returned, with the line it prints to stderr
fetchModuleMetadata(moduleIndex, moduleName, body) ==
    LET metadata == [name |-> moduleName, latest |-> <<>>,
                     versions |-> NoVersions, stderr |-> <<>>]
    IN  IF getModuleURL(RegistryURL, moduleIndex, moduleName) = <<>>
        THEN [metadata EXCEPT !.stderr = <<"Module not found in registry">>]
        ELSE IF body = <<>>
             THEN [metadata EXCEPT !.stderr = <<"Failed to fetch module metadata">>]
             ELSE [metadata EXCEPT !.latest = body[1].latest,
                                   !.versions = body[1].versions]

(***************************************************************************)
(* Builder (src/src/builder.cpp).  A command is <<>> for the empty string  *)
(* and <<its parts>> otherwise.                                            *)
(***************************************************************************)
getCompiler(os, hasClang) ==
    IF isWindows(os) THEN "cl"
    ELSE IF hasClang THEN "clang++" ELSE "g++"

\* the first path of a list that the repository holds, "" when none
RECURSIVE FirstExisting(_, _)
FirstExisting(paths, repo) ==
    IF paths = <<>> THEN ""
    ELSE IF Head(paths) \in repo THEN Head(paths)
         ELSE FirstExisting(Tail(paths), repo)

generateBuildCommand(os, hasClang, repo, shimFound) ==
    LET compiler == getCompiler(os, hasClang)
        alt == FirstExisting(<<"src/native.cpp", "src/main.cpp",
                               "source/native.cpp", "lib/native.cpp">>, repo)
        nativeCppPath == IF "native.cpp" \in repo \/ alt = ""
                         THEN "native.cpp" ELSE alt
        isMSVC == isWindows(os) /\ compiler = "cl"
    IN  IF ~shimFound THEN <<>>
        ELSE <<[compiler |-> compiler, msvc |-> isMSVC,
                source |-> nativeCppPath]>>

\* system(command) == 0: the shell runs the empty command with status 0;
\* a compiler fails on a source file that is not there
system(command, repo, compileOk) ==
    IF command = <<>> THEN TRUE
    ELSE command[1].source \in repo /\ compileOk

\* executeCommand: on Windows a cl command is not run when cl is neither
\* on PATH nor reachable through a vcvarsall.bat (clFound)
executeCommand(os, command, repo, clFound, compileOk) ==
    IF isWindows(os) /\ command # <<>> /\ command[1].compiler = "cl" /\ ~clFound
    THEN FALSE
    ELSE system(command, repo, compileOk)

\* metadata.json as Builder::createMetadata writes it; of its five fields
\* the model keeps name and version
createMetadata(moduleName, version) ==
    [name |-> moduleName, version |-> version]

\* what a build finds around it: the files of the source tree, whether
\* findNativeShim finds the shim, clang++ on PATH, cl reachable, whether the
\* compiler accepts the source and whether metadata.json can be opened.  A
\* world with "noShim" has the shim in none of the candidate places.
BuildEnvs(W, os) ==
    [repo : W.repos,
     shimFound : IF "noShim" \in W.faults THEN {FALSE} ELSE May(W, "shim"),
     hasClang : IF isWindows(os) THEN {FALSE} ELSE W.clang,
     clFound : May(W, "cl"),
     compileOk : May(W, "compile"),
     opened : May(W, "openMeta")]

\* buildFromSource in one environment, on a checkout (its url and ref) into
\* directory dir: the result, the directory afterwards, the source file
\* the existence check settled on ("" when none) and the command generated
buildFromSourceIn(os, dir, moduleName, checkout, version, env) ==
    LET alt == FirstExisting(<<"src/main.cpp", "source/native.cpp",
                               "lib/native.cpp">>, env.repo)
        nativeCpp == IF "native.cpp" \in env.repo THEN "native.cpp" ELSE alt
        command == generateBuildCommand(os, env.hasClang, env.repo, env.shimFound)
        built == [dir EXCEPT !.lib =
                    IF command # <<>>
                    THEN <<[kind |-> "built", url |-> checkout.url,
                            ref |-> checkout.ref]>>
                    ELSE @]
    IN  IF nativeCpp = ""
        THEN [ok |-> FALSE, dir |-> dir, nativeCpp |-> "", command |-> <<>>]
        ELSE IF ~executeCommand(os, command, env.repo, env.clFound, env.compileOk)
             THEN [ok |-> FALSE, dir |-> dir, nativeCpp |-> nativeCpp,
                   command |-> command]
             ELSE [ok |-> TRUE,
                   dir |-> IF env.opened
                           THEN [built EXCEPT !.meta =
                                   <<createMetadata(moduleName, version)>>]
                           ELSE built,
                   nativeCpp |-> nativeCpp, command |-> command]

\* buildFromSource for every environment of the world: result and directory
buildFromSource(W, os, dir, moduleName, checkout, version) ==
    { [ok |-> b.ok, dir |-> b.dir]
      : b \in { buildFromSourceIn(os, dir, moduleName, checkout, version, env)
                : env \in BuildEnvs(W, os) } }

\* buildNative in one environment, for `box build native`: the source is
\* <sourcePath>/native.cpp and nothing else; mkdir -p makes the output
\* directory and its result is not looked at
buildNative(os, dir, moduleName, version, env) ==
    LET command == generateBuildCommand(os, env.hasClang, env.repo, env.shimFound)
        made == ensureDirectory(dir)
        built == [made EXCEPT !.lib =
                    IF command # <<>>
                    THEN <<[kind |-> "built", url |-> <<>>, ref |-> <<>>]>>
                    ELSE @]
    IN  IF "native.cpp" \notin env.repo
        THEN [ok |-> FALSE, dir |-> dir, nativeCpp |-> "", command |-> <<>>]
        ELSE IF ~executeCommand(os, command, env.repo, env.clFound, env.compileOk)
             THEN [ok |-> FALSE, dir |-> made, nativeCpp |-> "native.cpp",
                   command |-> command]
             ELSE [ok |-> TRUE,
                   dir |-> IF env.opened
                           THEN [built EXCEPT !.meta =
                                   <<createMetadata(moduleName, version)>>]
                           ELSE built,
                   nativeCpp |-> "native.cpp", command |-> command]

\* the first directory of a list that holds include/core/neutron.h, ""
\* when none does
RECURSIVE FirstWithHeader(_, _)
FirstWithHeader(candidates, withHeader) ==
    IF candidates = <<>> THEN ""
    ELSE IF Head(candidates) \in withHeader THEN Head(candidates)
         ELSE FirstWithHeader(Tail(candidates), withHeader)

\* findNeutronDir: neutronHome is the value of NEUTRON_HOME ("" when it is
\* not set), msystem and home say whether MSYSTEM and HOME are set, and
\* withHeader is the set of directories that hold the header
findNeutronDir(os, neutronHome, msystem, home, withHeader) ==
    IF neutronHome # "" THEN neutronHome
    ELSE FirstWithHeader(
           (IF isWindows(os)
            THEN <<"C:\\Program Files\\Neutron", "C:\\Neutron">>
                 \o (IF msystem
                     THEN <<"/mingw64/neutron", "/usr/local/neutron", "/opt/neutron">>
                     ELSE <<>>)
            ELSE <<"/usr/local/neutron", "/opt/neutron">>
                 \o (IF home THEN <<"~/.neutron">> ELSE <<>>))
           \o <<".", "..">>,
           withHeader)

(***************************************************************************)
(* Installer (src/src/installer.cpp).  A run r is the call so far: its     *)
(* arguments, the files as it has left them, what it printed to stderr,    *)
(* the external steps it took, each <<step, argument, whether it worked>>, *)
(* the version it resolved (<<>> while none) with the VersionMetadata      *)
(* chosen, and the number of the temporary directory it made (-1: none).   *)
(***************************************************************************)
ParseSpec(moduleSpec) ==
    LET atPos == Find(moduleSpec, <<"@">>)
    IN  IF atPos # Npos
        THEN [name |-> SubSeq(moduleSpec, 1, atPos - 1),
              version |-> SubSeq(moduleSpec, atPos + 1, Len(moduleSpec))]
        ELSE [name |-> moduleSpec, version |-> <<>>]

NewRun(st, q, moduleName, requestedVersion) ==
    [name |-> moduleName, requested |-> requestedVersion, version |-> <<>>,
     ret |-> FALSE, err |-> "", stderr |-> <<>>, steps |-> <<>>,
     store |-> st, quark |-> q, tmp |-> -1, inIndex |-> FALSE,
     chosen |-> <<>>]

Step(r, step, arg, ok) == [r EXCEPT !.steps = Append(@, <<step, arg, ok>>)]

\* std::cerr << msg; return false
Fail(r, msg) == [r EXCEPT !.ret = FALSE, !.err = msg, !.stderr = Append(@, msg)]

\* a variant that updates .quark whatever the scope
UpdateManifestAnyScope(W, r, global) ==
    IF r.quark = <<>> THEN {[r EXCEPT !.ret = TRUE]}
    ELSE { Step([r EXCEPT !.ret = TRUE,
                          !.quark = <<UpdateQuark(r.quark[1], r.name, r.version)>>],
                "quark", <<>>, TRUE) }

\* the .quark update of a successful install, and return true.  A file
\* that does not open for reading yields no line; one that does not open
\* for writing stays as it is.
UpdateManifest(W, r, global) ==
    IF global \/ r.quark = <<>> THEN {[r EXCEPT !.ret = TRUE]}
    ELSE UNION {
           { Step([r EXCEPT !.ret = TRUE,
                            !.quark = IF wrote
                                      THEN <<UpdateQuark(IF read THEN r.quark[1] ELSE <<>>,
                                                         r.name, r.version)>>
                                      ELSE @],
                  "quark", <<>>, wrote)
             : wrote \in May(W, "writeQuark") }
           : read \in May(W, "readQuark") }

\* metadata.json as Installer::install writes it; of its five fields the
\* model keeps name and version
MetadataJson(moduleName, versionToInstall) ==
    [name |-> moduleName, version |-> versionToInstall]

\* the end of install: metadata.json, written when the file opens
WriteMetadata(W, os, r, global, versionMeta) ==
    UNION { UpdateManifest(W,
                Step(IF opened
                     THEN [r EXCEPT !.store[global][r.name].meta =
                             <<MetadataJson(r.name, r.version)>>]
                     ELSE r,
                     "metadata", <<>>, opened),
                global)
          : opened \in May(W, "openMeta") }

\* the binary URL of the OS the program runs on
BinaryURL(os, versionMeta) ==
    IF isLinux(os) THEN versionMeta.entryLinux
    ELSE IF isWindows(os) THEN versionMeta.entryWin
    ELSE IF isMacOS(os) THEN versionMeta.entryMac
    ELSE <<>>

BinaryDownload(W, os, r, global, versionMeta) ==
    LET binaryURL == BinaryURL(os, versionMeta)
    IN  IF binaryURL = <<>>
        THEN {Fail(r, "No binary or git repository available")}
        ELSE UNION {
               IF ~received
               THEN {Fail(Step(r, "download", binaryURL, FALSE),
                          "Failed to download module")}
               ELSE UNION {
                      IF ~opened
                      THEN {Fail(Step(Step(r, "download", binaryURL, TRUE),
                                      "library", <<>>, FALSE),
                                 "Failed to create file")}
                      ELSE WriteMetadata(W, os,
                             Step(Step([r EXCEPT !.store[global][r.name].lib =
                                          <<[kind |-> "binary", url |-> binaryURL,
                                             ref |-> <<>>]>>],
                                       "download", binaryURL, TRUE),
                                  "library", <<>>, TRUE),
                             global, versionMeta)
                      : opened \in May(W, "openLib") }
               : received \in May(W, "download") }

\* a variant that removes every temporary directory of the module
CleanupAll(W, r, global) ==
    { Step([r EXCEPT !.store[global][r.name].tmp = {}], "cleanup", <<>>, TRUE) }

\* rm -rf of the temporary directory of the run; its result is not read
Cleanup(W, r, global) ==
    { Step(IF removed
           THEN [r EXCEPT !.store[global][r.name].tmp = @ \ {r.tmp}]
           ELSE r,
           "cleanup", <<>>, removed)
      : removed \in May(W, "cleanup") }

\* clone, checkout, build and cleanup in the temporary directory r.tmp
CloneAndBuild(W, os, r, global, versionMeta) ==
    LET git == versionMeta.git
        Build(c) ==
          UNION { UNION { IF b.ok
                          THEN WriteMetadata(W, os, d, global, versionMeta)
                          ELSE {Fail(d, "Failed to build module from source")}
                          : d \in Cleanup(W,
                                    Step([c EXCEPT !.store[global][c.name] = b.dir],
                                         "build", <<>>, b.ok),
                                    global) }
                  : b \in buildFromSource(W, os, c.store[global][c.name],
                                          c.name, git, c.version) }
    IN  UNION {
          IF ~cloned
          THEN { Fail(d, "Failed to clone repository")
                 : d \in Cleanup(W, Step(r, "clone", git.url, FALSE), global) }
          ELSE LET c == Step(r, "clone", git.url, TRUE)
               IN  IF git.ref # <<>>
                   THEN UNION {
                          IF ~checkedOut
                          THEN { Fail(d, "Failed to checkout specific version")
                                 : d \in Cleanup(W, Step(c, "checkout", git.ref, FALSE),
                                                 global) }
                          ELSE Build(Step(c, "checkout", git.ref, TRUE))
                          : checkedOut \in May(W, "checkout") }
                   ELSE Build(c)
          : cloned \in May(W, "clone") }

\* a variant that takes the last free name
SourceBuildLast(W, os, r, global, versionMeta) ==
    LET dir == r.store[global][r.name]
        free == TmpIds \ dir.tmp
    IN  IF free = {}
        THEN {Fail(r, "Failed to create unique temp directory")}
        ELSE LET attempt == CHOOSE n \in free : \A m \in free : n >= m
             IN  UNION {
                   IF ~made
                   THEN {Fail(Step(r, "mktemp", <<>>, FALSE),
                              "Failed to create temp directory")}
                   ELSE CloneAndBuild(W, os,
                          Step([r EXCEPT !.store[global][r.name].tmp = @ \cup {attempt},
                                         !.tmp = attempt],
                               "mktemp", <<>>, TRUE),
                          global, versionMeta)
                   : made \in May(W, "mktemp") }

\* the source-build path: the first .tmpN that does not exist, of ten
SourceBuild(W, os, r, global, versionMeta) ==
    LET dir == r.store[global][r.name]
        free == TmpIds \ dir.tmp
    IN  IF free = {}
        THEN {Fail(r, "Failed to create unique temp directory")}
        ELSE LET attempt == CHOOSE n \in free : \A m \in free : n <= m
             IN  UNION {
                   IF ~made
                   THEN {Fail(Step(r, "mktemp", <<>>, FALSE),
                              "Failed to create temp directory")}
                   ELSE CloneAndBuild(W, os,
                          Step([r EXCEPT !.store[global][r.name].tmp = @ \cup {attempt},
                                         !.tmp = attempt],
                               "mktemp", <<>>, TRUE),
                          global, versionMeta)
                   : made \in May(W, "mktemp") }

\* install from the creation of the install directory on
Materialize(W, os, r, global, versionMeta) ==
    UNION {
      IF ~made
      THEN {Fail(Step(r, "mkdir", <<>>, FALSE), "Failed to create directory")}
      ELSE LET m == Step([r EXCEPT !.store[global][r.name] = ensureDirectory(@)],
                         "mkdir", <<>>, TRUE)
           IN  IF versionMeta.git.url = <<>>
               THEN BinaryDownload(W, os, m, global, versionMeta)
               ELSE SourceBuild(W, os, m, global, versionMeta)
      : made \in May(W, "mkdir") }

\* a variant that creates the directory of module a before it resolves,
\* and resolves nothing
installEager(W, os, st, q, moduleSpec, global) ==
    LET spec == ParseSpec(moduleSpec)
        r == NewRun([st EXCEPT ![global][A] = ensureDirectory(@)], q,
                    spec.name, spec.version)
    IN  { Fail(Step(r, "index", <<>>, TRUE), "Version not found") }

\* Installer::install on the files st (the stores) and q (.quark): the
\* runs the world allows
install(W, os, st, q, moduleSpec, global) ==
    LET spec == ParseSpec(moduleSpec)
        r == NewRun(st, q, spec.name, spec.version)
    IN  UNION {
          IF ~fetchIndex(moduleIndex)
          THEN {Fail(Step(r, "index", <<>>, FALSE), "Failed to fetch registry index")}
          ELSE UNION {
                 LET metadata == fetchModuleMetadata(moduleIndex, spec.name, body)
                     f == [Step(r, "index", <<>>, TRUE)
                             EXCEPT !.inIndex = spec.name \in DOMAIN moduleIndex,
                                    !.stderr = @ \o metadata.stderr]
                     versionToInstall == IF spec.version = <<>>
                                         THEN metadata.latest ELSE spec.version
                 IN  IF metadata.name = <<>>
                     THEN {Fail(f, "Module not found")}
                     ELSE IF versionToInstall \notin DOMAIN metadata.versions
                          THEN {Fail(f, "Version not found")}
                          ELSE Materialize(W, os,
                                 [f EXCEPT !.version = versionToInstall,
                                           !.chosen = <<metadata.versions[versionToInstall]>>],
                                 global, metadata.versions[versionToInstall])
                 : body \in (IF getModuleURL(RegistryURL, moduleIndex, spec.name) = <<>>
                             THEN {<<>>} ELSE W.manifests) }
          : moduleIndex \in W.indexes }

\* a variant that reports success and removes nothing
uninstallNothing(W, st, moduleName, global) ==
    { [ret |-> TRUE, err |-> "", store |-> st] }

\* Installer::uninstall: the result and the stores afterwards.  A
\* remove_all that throws may have removed a part of the directory.
uninstall(W, st, moduleName, global) ==
    LET dir == st[global][moduleName]
    IN  IF ~dir.exists
        THEN {[ret |-> FALSE, err |-> "Module not installed", store |-> st]}
        ELSE UNION {
               IF removed
               THEN {[ret |-> TRUE, err |-> "",
                      store |-> [st EXCEPT ![global][moduleName] = NoDir]]}
               ELSE {[ret |-> FALSE, err |-> "Failed to uninstall",
                      store |-> [st EXCEPT ![global][moduleName] = left]]
                     : left \in {dir, [dir EXCEPT !.lib = <<>>]}}
               : removed \in May(W, "remove") }

\* a variant that puts the directory back when the install fails
updateRestoring(W, os, st, q, moduleName, global) ==
    IF isInstalled(st, moduleName, global)
    THEN UNION { { IF r.ret THEN r ELSE [r EXCEPT !.store = st]
                   : r \in install(W, os, u.store, q, moduleName, global) }
                 : u \in uninstall(W, st, moduleName, global) }
    ELSE install(W, os, st, q, moduleName, global)

\* Installer::update: uninstall when installed, its result dropped (what
\* it printed to stderr stays), then install of the bare name
update(W, os, st, q, moduleName, global) ==
    IF isInstalled(st, moduleName, global)
    THEN UNION { { [r EXCEPT !.stderr = (IF u.err = "" THEN <<>> ELSE <<u.err>>) \o @]
                   : r \in install(W, os, u.store, q, moduleName, global) }
                 : u \in uninstall(W, st, moduleName, global) }
    ELSE install(W, os, st, q, moduleName, global)

(***************************************************************************)
(* The calls.  last records the call that was made: the arguments, the     *)
(* result, the exit code when it came from the command line (-1            *)
(* otherwise), whether it repeats the successful install before it, and    *)
(* for an update whether it found the module installed.                    *)
(***************************************************************************)
NoCall ==
    [op |-> "none", cli |-> FALSE, global |-> FALSE, name |-> <<>>,
     requested |-> <<>>, version |-> <<>>, ret |-> FALSE, exit |-> -1,
     err |-> "", stderr |-> <<>>, steps |-> <<>>, tmp |-> -1,
     inIndex |-> FALSE, chosen |-> <<>>, again |-> FALSE, stdout |-> <<>>,
     wasInstalled |-> FALSE]

\* main: return 0 when the Installer call returned true, 1 otherwise
ExitCode(ret) == IF ret THEN 0 ELSE 1

Report(op, cli, global, r) ==
    [op |-> op, cli |-> cli, global |-> global, name |-> r.name,
     requested |-> r.requested, version |-> r.version, ret |-> r.ret,
     exit |-> IF cli THEN ExitCode(r.ret) ELSE -1,
     err |-> r.err, stderr |-> r.stderr, steps |-> r.steps, tmp |-> r.tmp,
     inIndex |-> r.inIndex, chosen |-> r.chosen,
     again |-> /\ op = "install" /\ last.op = "install"
               /\ r.ret /\ last.ret
               /\ last.global = global /\ last.name = r.name
               /\ last.requested = r.requested /\ last.version = r.version,
     stdout |-> <<>>,
     wasInstalled |-> /\ op = "update" /\ r.name \in Names
                      /\ isInstalled(store, r.name, global)]

\* Installer::install(moduleSpec, global)
Install(W, moduleSpec, global) ==
    \E r \in install(W, platform, store, quark, moduleSpec, global) :
        /\ store' = r.store
        /\ quark' = r.quark
        /\ last' = Report("install", FALSE, global, r)
        /\ UNCHANGED <<platform, cwd, outFile, registry>>

\* box install <spec>: a local install
CliInstall(W, moduleSpec) ==
    \E r \in install(W, platform, store, quark, moduleSpec, FALSE) :
        /\ store' = r.store
        /\ quark' = r.quark
        /\ last' = Report("install", TRUE, FALSE, r)
        /\ UNCHANGED <<platform, cwd, outFile, registry>>

\* Installer::uninstall(moduleName, global)
Uninstall(W, moduleName, global) ==
    \E u \in uninstall(W, store, moduleName, global) :
        /\ store' = u.store
        /\ last' = [NoCall EXCEPT !.op = "uninstall", !.global = global,
                                  !.name = moduleName, !.ret = u.ret,
                                  !.err = u.err,
                                  !.stderr = IF u.err = "" THEN <<>> ELSE <<u.err>>]
        /\ UNCHANGED <<platform, quark, cwd, outFile, registry>>

\* Installer::update(moduleName, global)
Update(W, moduleName, global) ==
    \E r \in update(W, platform, store, quark, moduleName, global) :
        /\ store' = r.store
        /\ quark' = r.quark
        /\ last' = Report("update", FALSE, global, r)
        /\ UNCHANGED <<platform, cwd, outFile, registry>>

\* box info <name>
CliInfo(W, moduleName) ==
    \E moduleIndex \in W.indexes :
      \E body \in (IF getModuleURL(RegistryURL, moduleIndex, moduleName) = <<>>
                   THEN {<<>>} ELSE W.manifests) :
        LET metadata == fetchModuleMetadata(moduleIndex, moduleName, body)
            r == [Step(NewRun(store, quark, moduleName, <<>>),
                       "index", <<>>, fetchIndex(moduleIndex))
                    EXCEPT !.inIndex = moduleName \in DOMAIN moduleIndex]
            out == IF ~fetchIndex(moduleIndex)
                   THEN Fail(r, "Failed to fetch registry")
                   ELSE IF metadata.name = <<>>
                        THEN Fail([r EXCEPT !.stderr = metadata.stderr],
                                  "Module not found")
                        ELSE [r EXCEPT !.stderr = metadata.stderr, !.ret = TRUE,
                                       !.version = metadata.latest]
        IN  /\ last' = Report("info", TRUE, FALSE, out)
            /\ UNCHANGED <<platform, store, quark, cwd, outFile, registry>>

\* Installer::listInstalled(global): the vector it returns
listInstalled(st, global) == <<>>

\* a variant that uninstalls from the local store
CliUninstallLocal(W, moduleName) ==
    \E u \in uninstall(W, store, moduleName, FALSE) :
        /\ store' = u.store
        /\ last' = [NoCall EXCEPT !.op = "uninstall", !.cli = TRUE,
                                  !.global = TRUE, !.name = moduleName,
                                  !.ret = u.ret, !.exit = ExitCode(u.ret),
                                  !.err = u.err,
                                  !.stderr = IF u.err = "" THEN <<>> ELSE <<u.err>>]
        /\ UNCHANGED <<platform, quark, cwd, outFile, registry>>

\* box uninstall <name>: an uninstall from the global store
CliUninstall(W, moduleName) ==
    \E u \in uninstall(W, store, moduleName, TRUE) :
        /\ store' = u.store
        /\ last' = [NoCall EXCEPT !.op = "uninstall", !.cli = TRUE,
                                  !.global = TRUE, !.name = moduleName,
                                  !.ret = u.ret, !.exit = ExitCode(u.ret),
                                  !.err = u.err,
                                  !.stderr = IF u.err = "" THEN <<>> ELSE <<u.err>>]
        /\ UNCHANGED <<platform, quark, cwd, outFile, registry>>

\* box update <name>: an update in the global store
CliUpdate(W, moduleName) ==
    \E r \in update(W, platform, store, quark, moduleName, TRUE) :
        /\ store' = r.store
        /\ quark' = r.quark
        /\ last' = Report("update", TRUE, TRUE, r)
        /\ UNCHANGED <<platform, cwd, outFile, registry>>

\* box list: prints the names listInstalled(true) returns and exits with 0
CliList ==
    /\ last' = [NoCall EXCEPT !.op = "list", !.cli = TRUE, !.global = TRUE,
                              !.ret = TRUE, !.exit = 0,
                              !.stdout = listInstalled(store, TRUE)]
    /\ UNCHANGED <<platform, store, quark, cwd, outFile, registry>>

(***************************************************************************)
(* Spec: every call, on every platform, in a world where any step but the  *)
(* cleanup may fail.                                                       *)
(***************************************************************************)
\* the module specs given to install: a is in the index, b is not
InstallSpecs ==
    {A, A \o <<"@">> \o V1, A \o <<"@">> \o V2, A \o <<"@">> \o V3,
     B, <<"@">> \o V1}

ProjectFiles == {<<>>, <<PutLines(<<DepHeader>>)>>}

Init ==
    /\ platform \in Platforms
    /\ store = EmptyStore
    /\ quark \in ProjectFiles
    /\ last = NoCall
    /\ cwd = NoFiles
    /\ outFile = <<>>
    /\ registry = NewRegistry

\* no call is being reported: the next one starts from the files alone
Idle == last.op = "none"

\* the caller has read the result (a process of the command line has
\* exited)
Done ==
    /\ ~Idle
    /\ last' = NoCall
    /\ UNCHANGED <<platform, store, quark, cwd, outFile, registry>>

Next ==
    \/ \E moduleSpec \in InstallSpecs, global \in Scopes :
           Idle /\ Install(World, moduleSpec, global)
    \/ \E moduleSpec \in InstallSpecs :
           Idle /\ CliInstall(World, moduleSpec)
    \/ \E moduleName \in Names, global \in Scopes :
           Idle /\ Uninstall(World, moduleName, global)
    \/ \E moduleName \in Names, global \in Scopes :
           Idle /\ Update(World, moduleName, global)
    \/ \E moduleName \in Names \cup {<<>>} :
           Idle /\ CliInfo(World, moduleName)
    \/ Done

Spec == Init /\ [][Next]_vars

(***************************************************************************)
(* SpecTmp: local installs of module a into a directory that holds the     *)
(* temporary directories earlier processes left behind, in a world where   *)
(* every step of the source-build path, the cleanup included, may fail.    *)
(***************************************************************************)
TmpSpecs == {A, A \o <<"@">> \o V1}

InitTmp ==
    /\ platform = "Linux"
    /\ \E left \in SUBSET TmpIds :
          store = [EmptyStore EXCEPT ![FALSE][A] =
                     IF left = {} THEN NoDir ELSE [EmptyDir EXCEPT !.tmp = left]]
    /\ quark = <<>>
    /\ last = NoCall
    /\ cwd = NoFiles
    /\ outFile = <<>>
    /\ registry = NewRegistry

NextTmp ==
    \/ \E moduleSpec \in TmpSpecs :
           Idle /\ Install(TmpWorld, moduleSpec, FALSE)
    \/ Idle /\ Uninstall(TmpWorld, A, FALSE)
    \/ Done

SpecTmp == InitTmp /\ [][NextTmp]_vars

(***************************************************************************)
(* SpecQuark: successful local installs, one after the other, in a project *)
(* whose .quark starts as any file of at most MaxLines lines of LinePool,  *)
(* with or without a final newline.                                        *)
(***************************************************************************)
LinePool ==
    {DepHeader,
     <<"[", "o", "]">>,
     <<" ", "[", "o", "]">>,
     <<"#">> \o DepHeader,
     <<"a", "=", "2">>,
     <<"k", "=", "v">>}

LineSeqs == UNION { [1..n -> LinePool] : n \in 0..MaxLines }

\* the lines with a "\n" between them and none at the end
RECURSIVE JoinLines(_)
JoinLines(lines) ==
    IF lines = <<>> THEN <<>>
    ELSE IF Len(lines) = 1 THEN Head(lines)
         ELSE Head(lines) \o <<"\n">> \o JoinLines(Tail(lines))

QuarkFiles ==
    { <<PutLines(ls)>> : ls \in LineSeqs } \cup { <<JoinLines(ls)>> : ls \in LineSeqs }

QuarkSpecs == {A \o <<"@">> \o V1, B \o <<"@">> \o V1}

InitQuark ==
    /\ platform = "Linux"
    /\ store = EmptyStore
    /\ quark \in QuarkFiles
    /\ last = NoCall
    /\ cwd = NoFiles
    /\ outFile = <<>>
    /\ registry = NewRegistry

NextQuark ==
    \E moduleSpec \in QuarkSpecs :
        /\ Len(GetLines(quark[1])) <= MaxQuarkLines
        /\ Install(QuietWorld, moduleSpec, FALSE)

SpecQuark == InitQuark /\ [][NextQuark]_vars

(***************************************************************************)
(* What the calls are claimed to do.                                       *)
(***************************************************************************)
HasStep(l, step) == \E i \in 1..Len(l.steps) : l.steps[i][1] = step
StepOk(l, step) == \E i \in 1..Len(l.steps) : l.steps[i][1] = step /\ l.steps[i][3]
StepFailed(l, step) ==
    \E i \in 1..Len(l.steps) : l.steps[i][1] = step /\ ~l.steps[i][3]

\* the call took the source-build path
SourcePath(l) ==
    l.err = "Failed to create unique temp directory" \/ HasStep(l, "mktemp")

\* the call was an install that got past resolve and then failed
FailedAfterResolve(l) == l.op = "install" /\ ~l.ret /\ l.version # <<>>

\* C1: after an install that returns success the library of the module
\* exists, and metadata.json exists with the name of the module and the
\* version that was resolved.
C1_SuccessLeavesLibraryAndMetadata ==
    (last.op = "install" /\ last.ret) =>
        LET dir == store[last.global][last.name]
        IN  /\ dir.exists
            /\ dir.lib # <<>>
            /\ dir.meta # <<>>
            /\ dir.meta[1].name = last.name
            /\ dir.meta[1].version = last.version

\* C2, as stated: after an install on the source-build path no .tmpN
\* directory of the module exists, whatever existed before.
C2_NoTmpAfterSourceBuild ==
    (last.op = "install" /\ SourcePath(last)) =>
        store[last.global][last.name].tmp = {}

\* C2, amended: an install on the source-build path leaves the .tmpN
\* directories that existed before it, and none besides them but the one
\* it made when the command that removes it fails.
C2_OwnTmpRemoved ==
    [][ (last'.op = "install" /\ SourcePath(last')) =>
            store'[last'.global][last'.name].tmp =
                store[last'.global][last'.name].tmp
                  \cup (IF StepFailed(last', "cleanup") THEN {last'.tmp} ELSE {})
      ]_vars

\* a successful source build in .tmp2, removed, beside .tmp0 and .tmp1
C2_Witness ==
    /\ last.op = "install" /\ last.ret
    /\ StepOk(last, "build") /\ StepOk(last, "cleanup")
    /\ last.tmp = 2
    /\ store[FALSE][A].tmp = {0, 1}

\* C3, as stated: after an install that fails after resolve the directory
\* of the module does not exist unless it existed before the call.
C3_NoPartialEntry ==
    [][ FailedAfterResolve(last') =>
            (store'[last'.global][last'.name].exists
                => store[last'.global][last'.name].exists)
      ]_vars

\* C3, amended: after an install that fails after resolve the directory of
\* the module exists if it existed before or its creation succeeded, and
\* holds the library and the metadata.json it held before the call.
C3_FailureKeepsDirectory ==
    [][ FailedAfterResolve(last') =>
            LET before == store[last'.global][last'.name]
                after == store'[last'.global][last'.name]
            IN  /\ after.exists = (before.exists \/ StepOk(last', "mkdir"))
                /\ after.lib = before.lib
                /\ after.meta = before.meta
      ]_vars

\* a failed build has left an empty directory of module a
C3_Witness ==
    /\ last.op = "install" /\ ~last.ret /\ last.name = A
    /\ last.err = "Failed to build module from source"
    /\ store[last.global][A].exists
    /\ store[last.global][A].lib = <<>>
    /\ store[last.global][A].meta = <<>>

\* C4: an install whose name is not in the index, or whose version is no
\* key of versions (no version was resolved), returns failure and leaves
\* both stores and .quark as they were.
C4_ResolveFailureChangesNothing ==
    [][ (last'.op = "install" /\ (~last'.inIndex \/ last'.version = <<>>)) =>
            (~last'.ret /\ store' = store /\ quark' = quark)
      ]_vars

\* a@3 is refused in a project that has module a installed
C4_Witness ==
    /\ last.op = "install" /\ ~last.ret
    /\ last.inIndex /\ last.requested = V3 /\ last.version = <<>>
    /\ store[FALSE][A].lib # <<>>
    /\ quark # <<>>

\* C5: an install of a non-empty name that is no key of the fetched index
\* fails with "Module not found".
C5_UnknownNameIsModuleNotFound ==
    (last.op = "install" /\ last.name # <<>>
       /\ StepOk(last, "index") /\ ~last.inIndex) =>
        (~last.ret /\ last.err = "Module not found")

\* C6: box info and box install of a name that is not in the fetched index
\* exit with 1.
C6_UnknownNameExitsOne ==
    (last.cli /\ last.op \in {"info", "install"} /\ last.name # <<>>
       /\ StepOk(last, "index") /\ ~last.inIndex) =>
        last.exit = 1

\* the entry URL of the platform, by Platform::getEntryKey
EntryURL(os, versionMeta) ==
    CASE getEntryKey(os) = "entry-linux" -> versionMeta.entryLinux
      [] getEntryKey(os) = "entry-win" -> versionMeta.entryWin
      [] getEntryKey(os) = "entry-mac" -> versionMeta.entryMac

\* C7: with a git url the source-build path is taken and nothing is
\* downloaded; without one and with an entry URL of the platform the
\* binary is downloaded and nothing is cloned or built; with neither the
\* install fails with "No binary or git repository available".
C7_PathSelection ==
    (last.op = "install" /\ last.chosen # <<>> /\ StepOk(last, "mkdir")) =>
        LET versionMeta == last.chosen[1]
            entry == EntryURL(platform, versionMeta)
        IN  /\ versionMeta.git.url # <<>> =>
                  (SourcePath(last) /\ ~HasStep(last, "download"))
            /\ (versionMeta.git.url = <<>> /\ entry # <<>>) =>
                  /\ HasStep(last, "download")
                  /\ ~SourcePath(last)
                  /\ ~HasStep(last, "clone") /\ ~HasStep(last, "build")
            /\ (versionMeta.git.url = <<>> /\ entry = <<>>) =>
                  /\ ~last.ret
                  /\ last.err = "No binary or git repository available"

C9_QuarkIdempotent ==
    [][ last'.again => quark' = quark ]_vars

EndsWithNewline(bytes) == bytes # <<>> /\ bytes[Len(bytes)] = "\n"

\* the lines of a [dependencies] section: from a header line to the line
\* before the next line that starts a section
HasDependencies(lines) == \E i \in 1..Len(lines) : Trimmed(lines[i]) = DepHeader

RECURSIVE InSection(_, _)
InSection(lines, i) ==
    IF i = 0 THEN FALSE
    ELSE IF Trimmed(lines[i]) = DepHeader THEN TRUE
         ELSE IF Trimmed(lines[i]) # <<>> /\ Trimmed(lines[i])[1] = "["
              THEN FALSE
              ELSE InSection(lines, i - 1)

Outside(lines) == SelectSeq([i \in 1..Len(lines) |-> <<i, lines[i]>>],
                            LAMBDA e : ~InSection(lines, e[1]))

OutsideLines(lines) == [i \in 1..Len(Outside(lines)) |-> Outside(lines)[i][2]]

\* what an update from old to new has to keep: a file without section is
\* only appended to; in a file with the section the lines outside it stay,
\* and so does the end of the file when its last line is outside
FrameKept(old, new) ==
    LET o == GetLines(old)
        n == GetLines(new)
    IN  IF ~HasDependencies(o)
        THEN Len(new) >= Len(old) /\ SubSeq(new, 1, Len(old)) = old
        ELSE /\ OutsideLines(n) = OutsideLines(o)
             /\ ~InSection(o, Len(o)) =>
                   (EndsWithNewline(new) = EndsWithNewline(old))

\* C10: the .quark update of a successful local install changes only the
\* [dependencies] section: the lines outside it stay as they are and in
\* their order, no line is put into another section, and the end of the
\* file stays as it is.
C10_OnlyDependenciesChange ==
    [][ (last'.op = "install" /\ last'.ret /\ ~last'.global /\ quark # <<>>) =>
            FrameKept(quark[1], quark'[1])
      ]_vars

\* line i lies inside [dependencies] and starts with <name>=
IsEntryOf(lines, i, moduleName) ==
    /\ InSection(lines, i)
    /\ Find(Trimmed(lines[i]), moduleName \o <<"=">>) = 1

\* the position at which a new entry belongs: before the first line after
\* the first [dependencies] header that is outside the section, or behind
\* the last line
EntryPosition(lines) ==
    LET h == CHOOSE i \in 1..Len(lines) :
                 /\ Trimmed(lines[i]) = DepHeader
                 /\ \A j \in 1..(i - 1) : Trimmed(lines[j]) # DepHeader
        after == { j \in (h + 1)..Len(lines) : ~InSection(lines, j) }
    IN  IF after = {} THEN Len(lines) + 1
        ELSE CHOOSE j \in after : \A k \in after : j <= k

\* the lines an update of the lines o is to leave
Placed(o, moduleName, entry) ==
    IF \E i \in 1..Len(o) : IsEntryOf(o, i, moduleName)
    THEN [i \in 1..Len(o) |-> IF IsEntryOf(o, i, moduleName) THEN entry ELSE o[i]]
    ELSE IF HasDependencies(o)
         THEN InsertAt(o, EntryPosition(o), entry)
         ELSE o \o << <<>>, DepHeader, entry >>

\* C11: after a successful local install with .quark present the file has
\* a [dependencies] header and the line name=v inside that section; a line
\* name=... of the section was replaced in place, otherwise the line was
\* put before the next section header or at the end, behind a section
\* created after a blank line when there was none.
C11_EntryPlacedInDependencies ==
    [][ (last'.op = "install" /\ last'.ret /\ ~last'.global /\ quark # <<>>) =>
            LET entry == last'.name \o <<"=">> \o last'.version
                n == GetLines(quark'[1])
            IN  /\ HasDependencies(n)
                /\ \E i \in 1..Len(n) : InSection(n, i) /\ n[i] = entry
                /\ n = Placed(GetLines(quark[1]), last'.name, entry)
      ]_vars

(***************************************************************************)
(* SpecWrite: the write-back of .quark at the end of a successful local    *)
(* install, one stream operation at a time.  The stream holds the lines    *)
(* still to write and the bytes in its buffer; the bytes a reader sees are *)
(* those of quark.  The process may stop while the stream is open; the     *)
(* model follows the project no further than that.                         *)
(***************************************************************************)
\* std::ofstream outFile(".quark"): the install has run up to the
\* write-back, and opening the stream truncates the file
OpenOut(W, moduleSpec) ==
    /\ outFile = <<>>
    /\ quark # <<>>
    /\ \E r \in install(W, platform, store, quark, moduleSpec, FALSE) :
          /\ r.ret /\ StepOk(r, "quark")
          /\ store' = r.store
          /\ quark' = << <<>> >>
          /\ outFile' = <<[pending |-> GetLines(r.quark[1]), buffer |-> <<>>,
                           old |-> quark[1], new |-> r.quark[1],
                           run |-> r, alive |-> TRUE]>>
    /\ UNCHANGED <<platform, last, cwd, registry>>

\* outFile << l << "\n"
WriteLine ==
    /\ outFile # <<>> /\ outFile[1].alive
    /\ outFile[1].pending # <<>>
    /\ outFile' = <<[outFile[1] EXCEPT
                        !.buffer = @ \o Head(outFile[1].pending) \o <<"\n">>,
                        !.pending = Tail(@)]>>
    /\ UNCHANGED <<platform, store, quark, last, cwd, registry>>

\* the stream writes its buffer to the file; when it does so before the
\* close depends on the size of the buffer
Flush ==
    /\ outFile # <<>> /\ outFile[1].alive
    /\ outFile[1].buffer # <<>>
    /\ quark' = <<quark[1] \o outFile[1].buffer>>
    /\ outFile' = <<[outFile[1] EXCEPT !.buffer = <<>>]>>
    /\ UNCHANGED <<platform, store, last, cwd, registry>>

\* outFile.close(); return true
CloseOut ==
    /\ outFile # <<>> /\ outFile[1].alive
    /\ outFile[1].pending = <<>>
    /\ quark' = <<quark[1] \o outFile[1].buffer>>
    /\ outFile' = <<>>
    /\ last' = Report("install", FALSE, FALSE, outFile[1].run)
    /\ UNCHANGED <<platform, store, cwd, registry>>

\* the process stops: what its stream had not written is lost
Stop ==
    /\ outFile # <<>> /\ outFile[1].alive
    /\ outFile' = <<[outFile[1] EXCEPT !.alive = FALSE, !.buffer = <<>>]>>
    /\ UNCHANGED <<platform, store, quark, last, cwd, registry>>

InitWrite ==
    /\ platform = "Linux"
    /\ store = EmptyStore
    /\ quark \in QuarkFiles
    /\ last = NoCall
    /\ cwd = NoFiles
    /\ outFile = <<>>
    /\ registry = NewRegistry

NextWrite ==
    \/ \E moduleSpec \in QuarkSpecs :
          /\ Len(GetLines(quark[1])) <= MaxQuarkLines
          /\ OpenOut(QuietWorld, moduleSpec)
    \/ WriteLine
    \/ Flush
    \/ CloseOut
    \/ Stop

SpecWrite == InitWrite /\ [][NextWrite]_vars

\* C12: while a local install writes .quark back, and after the process
\* has stopped in the middle of it, the file holds the complete old
\* content or the complete new content.
C12_OldOrNewContent ==
    outFile # <<>> => quark[1] \in {outFile[1].old, outFile[1].new}

\* the module spec a reported install was called with
SpecOf(l) ==
    IF l.requested = <<>> THEN l.name ELSE l.name \o <<"@">> \o l.requested

\* some run of the same install on the stores st with the project file q
\* returns what the reported run l returned and leaves the stores stAfter
SameResultWith(l, st, stAfter, q) ==
    \E r \in install(World, platform, st, q, SpecOf(l), FALSE) :
        r.ret = l.ret /\ r.err = l.err /\ r.store = stAfter

\* C13: a global install, an install that fails and a local install
\* without .quark leave .quark as it is (absent when absent), and a local
\* install returns with .quark absent what it returns with .quark present.
C13_ManifestStepGated ==
    [][ last'.op = "install" =>
            /\ (last'.global \/ ~last'.ret \/ quark = <<>>) => quark' = quark
            /\ ~last'.global =>
                  SameResultWith(last', store, store',
                                 IF quark = <<>> THEN <<PutLines(<<DepHeader>>)>>
                                 ELSE <<>>)
      ]_vars

\* a global install has succeeded in a project whose .quark lists nothing
C13_Witness ==
    /\ last.op = "install" /\ last.global /\ last.ret
    /\ store[TRUE][A].lib # <<>>
    /\ quark = <<PutLines(<<DepHeader>>)>>

\* C14: update(name, scope) does what install(name, scope) does once the
\* directory of the module in that store is gone: it resolves the bare
\* name, leaves the other store alone, and when it returns success the
\* store is one that this install leaves behind, with no file of the
\* installation before it.
C14_UpdateIsUninstallThenInstall ==
    [][ last'.op = "update" =>
            /\ last'.requested = <<>>
            /\ store'[~last'.global] = store[~last'.global]
            /\ last'.ret =>
                  \E r \in install(World, platform,
                                   [store EXCEPT ![last'.global][last'.name] = NoDir],
                                   quark, last'.name, last'.global) :
                      /\ r.ret
                      /\ r.version = last'.version
                      /\ r.store = store'
                      /\ r.quark = quark'
      ]_vars


(***************************************************************************)
(* The registry client against the index its server holds.  SpecRegistry   *)
(* follows one Registry object through fetches and queries while the       *)
(* server publishes other index documents.  Besides the registry of the    *)
(* constructor it follows one that names a local mirror, which fetchIndex  *)
(* and getModuleURL provide for.                                           *)
(***************************************************************************)
\* entries of the modules object of a served index
MaxEntries == 2

Ab == <<"A", "b">>
UpperB == <<"B">>
RegistryNames == {A, Ab, UpperB}
EntryURLs == {<<".", "/", "m", ".", "j", "s", "o", "n">>, <<"h", "t", "t", "p", "s", ":", "/", "/", "o", "/", "m", ".", "j", "s", "o", "n">>}
Queries == {<<>>, <<"a">>, <<"B">>, <<"a", "b">>, <<"z">>}

RECURSIVE RenderEntries(_)
RenderEntries(entries) ==
    IF entries = <<>> THEN <<>>
    ELSE Quoted(entries[1][1]) \o <<":">> \o Quoted(entries[1][2])
           \o (IF Len(entries) > 1 THEN <<",">> ELSE <<>>)
           \o RenderEntries(Tail(entries))

\* the start of an index document
VersionField ==
    <<"{", "\"", "v", "e", "r", "s", "i", "o", "n", "\"", ":", "\"", "1", ".", "0", "\"">>

\* the index document of the registry for a list of <<name, url>> entries
RenderIndex(entries) ==
    VersionField \o <<",">> \o ModulesKey
      \o <<":", "{">> \o RenderEntries(entries) \o <<"}", "}">>

EntryLists ==
    UNION { [1..n -> RegistryNames \X EntryURLs] : n \in 0..MaxEntries }

\* the documents a server may hold, one of them without a modules object
IndexDocs == { RenderIndex(e) : e \in EntryLists } \cup {VersionField \o <<"}">>}

Rest == <<platform, store, quark, last, cwd, outFile>>

\* the maintainers of the registry publish another index
Serve(doc) ==
    /\ doc # registry.index
    /\ registry' = [registry EXCEPT !.index = doc]
    /\ UNCHANGED Rest

\* fetchIndex: the download yields the served document or, on any failure,
\* the empty string
FetchIndex ==
    /\ \E content \in {registry.index, <<>>} :
          IF content = <<>>
          THEN registry' = [registry EXCEPT
                   !.answer = <<[op |-> "fetchIndex", arg |-> <<>>,
                                 ret |-> FALSE]>>]
          ELSE LET parsed == parseIndex(registry.registryURL,
                                        registry.moduleIndex, content)
               IN  registry' = [registry EXCEPT
                       !.moduleIndex = parsed,
                       !.fetched = <<content>>,
                       !.answer = <<[op |-> "fetchIndex", arg |-> content,
                                     ret |-> fetchIndex(parsed)]>>]
    /\ UNCHANGED Rest

GetModuleURL(moduleName) ==
    /\ registry' = [registry EXCEPT
           !.answer = <<[op |-> "getModuleURL", arg |-> moduleName,
                         ret |-> getModuleURL(registry.registryURL,
                                              registry.moduleIndex,
                                              moduleName)]>>]
    /\ UNCHANGED Rest

Search(query) ==
    /\ registry' = [registry EXCEPT
           !.answer = <<[op |-> "search", arg |-> query,
                         ret |-> search(registry.moduleIndex, query)]>>]
    /\ UNCHANGED Rest

ListModules ==
    /\ registry' = [registry EXCEPT
           !.answer = <<[op |-> "listModules", arg |-> <<>>,
                         ret |-> listModules(registry.moduleIndex)]>>]
    /\ UNCHANGED Rest

InitRegistry ==
    /\ platform = "Linux"
    /\ store = EmptyStore
    /\ quark = <<>>
    /\ last = NoCall
    /\ cwd = NoFiles
    /\ outFile = <<>>
    /\ \E u \in {RegistryURL, LocalRegistryURL}, doc \in IndexDocs :
          registry = [NewRegistry EXCEPT !.registryURL = u, !.index = doc]

NextRegistry ==
    \/ \E doc \in IndexDocs : Serve(doc)
    \/ FetchIndex
    \/ \E moduleName \in RegistryNames \cup {<<"z">>} : GetModuleURL(moduleName)
    \/ \E query \in Queries : Search(query)
    \/ ListModules

SpecRegistry == InitRegistry /\ [][NextRegistry]_vars

\* the entries of the served index as its document lists them, a later
\* entry of a name replacing an earlier one
Listed(doc) ==
    LET lists == { e \in EntryLists : RenderIndex(e) = doc }
        e == CHOOSE e \in lists : TRUE
    IN  IF lists = {} THEN IndexNone
        ELSE [n \in { e[i][1] : i \in 1..Len(e) } |->
                e[CHOOSE i \in 1..Len(e) :
                     /\ e[i][1] = n
                     /\ \A j \in (i + 1)..Len(e) : e[j][1] # n][2]]

\* the step is a fetch whose download succeeded
FetchedIndex ==
    /\ registry'.answer # <<>>
    /\ registry'.answer[1].op = "fetchIndex"
    /\ registry'.answer[1].arg # <<>>

\* C15: a fetch of the index that follows a fetch of the same served
\* document leaves the module index as it was, and with it the URL that
\* getModuleURL returns for every name.
C15_FetchIndexIdempotent ==
    [][ (FetchedIndex /\ registry.fetched = <<registry.index>>) =>
           /\ registry'.moduleIndex = registry.moduleIndex
           /\ \A n \in RegistryNames \cup {<<"z">>} :
                 getModuleURL(registry'.registryURL, registry'.moduleIndex, n)
                   = getModuleURL(registry.registryURL, registry.moduleIndex, n)
      ]_vars

\* a second fetch of an index with a relative and an absolute entry has run
C15_Witness ==
    /\ registry.fetched = <<registry.index>>
    /\ registry.answer # <<>> /\ registry.answer[1].op = "fetchIndex"
    /\ registry.answer[1].ret
    /\ Cardinality(DOMAIN registry.moduleIndex) = 2
    /\ \E n \in DOMAIN registry.moduleIndex :
          Listed(registry.index)[n] = <<".", "/", "m", ".", "j", "s", "o", "n">>

\* the URL the entries of a document give a name under a base
Resolved(base, entries, name) ==
    IF name \notin DOMAIN entries THEN <<>>
    ELSE IF StartsWithDot(entries[name]) THEN base \o Tail(entries[name])
    ELSE entries[name]

\* C16: getModuleURL returns, for a name the fetched index lists with a
\* URL beginning with '.', the registry base followed by that URL without
\* its first character; for a name listed with another URL, that URL; and
\* for a name the index does not list, the empty string.
C16_ModuleURLResolved ==
    (registry.answer # <<>> /\ registry.answer[1].op = "getModuleURL") =>
        registry.answer[1].ret =
            Resolved(registry.registryURL,
                     IF registry.fetched = <<>> THEN IndexNone
                     ELSE Listed(registry.fetched[1]),
                     registry.answer[1].arg)

\* a local registry has answered for a name listed with a relative URL
C16_Witness ==
    /\ registry.answer # <<>> /\ registry.answer[1].op = "getModuleURL"
    /\ IsLocal(registry.registryURL)
    /\ registry.fetched # <<>>
    /\ registry.answer[1].arg \in DOMAIN Listed(registry.fetched[1])
    /\ StartsWithDot(Listed(registry.fetched[1])[registry.answer[1].arg])
    /\ registry.answer[1].ret = LocalRegistryURL \o <<"/", "m", ".", "j", "s", "o", "n">>

\* two characters that differ at most in case
SameLetter(c, d) ==
    c = d \/ {c, d} \in {{"a", "A"}, {"b", "B"}, {"z", "Z"}}

\* query occurs in name when case is ignored
OccursIn(query, name) ==
    \E k \in 0..(Len(name) - Len(query)) :
        \A i \in 1..Len(query) : SameLetter(query[i], name[k + i])

Range(s) == { s[i] : i \in 1..Len(s) }

\* C17: search returns each name of the index in which the query occurs,
\* case ignored, once and no other name; for the empty query these are
\* the names listModules returns.
C17_SearchMatches ==
    (registry.answer # <<>> /\ registry.answer[1].op = "search") =>
        LET ret == registry.answer[1].ret
            query == registry.answer[1].arg
        IN  /\ Range(ret) = { n \in DOMAIN registry.moduleIndex :
                                OccursIn(query, n) }
            /\ Len(ret) = Cardinality(Range(ret))
            /\ query = <<>> =>
                  Range(ret) = Range(listModules(registry.moduleIndex))

\* a query in upper case has matched a name in lower case among others
C17_Witness ==
    /\ registry.answer # <<>> /\ registry.answer[1].op = "search"
    /\ registry.answer[1].arg = <<"B">>
    /\ DOMAIN registry.moduleIndex = {Ab, A}
    /\ registry.answer[1].ret = <<Ab>>

(***************************************************************************)
(* The registry client against the manifest of module a.  SpecManifest     *)
(* draws the manifest the server holds from the documents of the format    *)
(* fetchModuleMetadata names, with one or two versions whose objects hold  *)
(* some of the fields, and follows fetchModuleMetadata and the installs    *)
(* that read it.                                                           *)
(***************************************************************************)
\* versions of a served manifest
MaxVersions == 2

VersionKeys == <<V1, V2>>

\* the fields of a version object, in the order a manifest lists them
FieldKeys == <<<<"d", "e", "s", "c", "r", "i", "p", "t", "i", "o", "n">>, <<"e", "n", "t", "r", "y", "-", "l", "i", "n", "u", "x">>, <<"e", "n", "t", "r", "y", "-", "w", "i", "n">>, <<"e", "n", "t", "r", "y", "-", "m", "a", "c">>,
               <<"u", "r", "l">>, <<"r", "e", "f">>>>

\* the fields the object of one version may hold
FieldSets ==
    {{}, {1}, {2}, {3, 4}, {5}, {5, 6}, {2, 5, 6}, {1, 2, 3, 4, 5, 6}}

\* the value a manifest gives field f of version v
FieldValue(f, v) == <<<<"d", "l", "w", "m", "u", "r">>[f]>> \o v

\* "key":"value"
Field(f, v) == Quoted(FieldKeys[f]) \o <<":">> \o Quoted(FieldValue(f, v))

RECURSIVE Joined(_)
Joined(parts) ==
    IF parts = <<>> THEN <<>>
    ELSE parts[1] \o (IF Len(parts) > 1 THEN <<",">> ELSE <<>>)
           \o Joined(Tail(parts))

\* the object of version v holding the fields of present
RenderVersion(present, v) ==
    LET plain == SelectSeq(<<1, 2, 3, 4>>, LAMBDA f : f \in present)
        inGit == SelectSeq(<<5, 6>>, LAMBDA f : f \in present)
        git == IF inGit = <<>> THEN <<>>
               ELSE << Quoted(<<"g", "i", "t">>) \o <<":", "{">>
                         \o Joined([i \in 1..Len(inGit) |-> Field(inGit[i], v)])
                         \o <<"}">> >>
    IN  <<"{">> \o Joined([i \in 1..Len(plain) |-> Field(plain[i], v)] \o git)
            \o <<"}">>

\* the manifest of module a whose i-th version holds the fields shape[i]
RenderManifest(shape) ==
    <<"{", "\"", "n", "a", "m", "e", "\"", ":", "\"", "a", "\"", ",", "\"", "l", "a", "t", "e", "s", "t", "\"", ":">> \o Quoted(VersionKeys[Len(shape)])
      \o <<",", "\"", "v", "e", "r", "s", "i", "o", "n", "s", "\"", ":", "{">>
      \o Joined([i \in 1..Len(shape) |->
                   Quoted(VersionKeys[i]) \o <<":">>
                     \o RenderVersion(shape[i], VersionKeys[i])])
      \o <<"}", "}">>

Shapes == UNION { [1..n -> FieldSets] : n \in 1..MaxVersions }

ManifestDocs == { RenderManifest(shape) : shape \in Shapes }

\* what install meets when the registry serves the index of a and this
\* manifest, and nothing fails
ServedWorld ==
    [indexes |-> {registry.moduleIndex},
     manifests |-> {<<parseMetadata(registry.manifest)>>},
     repos |-> {{"native.cpp"}},
     clang |-> {TRUE},
     faults |-> {}]

\* fetchModuleMetadata: the download yields the served manifest or, on any
\* failure, the empty string
FetchModuleMetadata(moduleName) ==
    /\ Idle
    /\ \E content \in {registry.manifest, <<>>} :
          registry' = [registry EXCEPT
              !.answer = <<[op |-> "fetchModuleMetadata", arg |-> moduleName,
                            ret |-> fetchModuleMetadata(
                                      registry.moduleIndex, moduleName,
                                      IF content = <<>> THEN <<>>
                                      ELSE <<parseMetadata(content)>>)]>>]
    /\ UNCHANGED Rest

InitManifest ==
    /\ platform = "Linux"
    /\ store = EmptyStore
    /\ quark = <<>>
    /\ last = NoCall
    /\ cwd = NoFiles
    /\ outFile = <<>>
    /\ \E doc \in ManifestDocs :
          registry = [NewRegistry EXCEPT !.moduleIndex = IndexA,
                                         !.manifest = doc]

NextManifest ==
    \/ \E moduleName \in Names : FetchModuleMetadata(moduleName)
    \/ \E moduleSpec \in {A, A \o <<"@">> \o V1, A \o <<"@">> \o V2} :
          Idle /\ Install(ServedWorld, moduleSpec, TRUE)
    \/ Done

SpecManifest == InitManifest /\ [][NextManifest]_vars

\* the fields of each version as the served manifest lists them
ShapeOf(doc) == CHOOSE shape \in Shapes : RenderManifest(shape) = doc

\* the VersionMetadata of a version whose object holds the fields of
\* present: a field that is absent is the empty string
Own(present, v) ==
    LET val(f) == IF f \in present THEN FieldValue(f, v) ELSE <<>>
    IN  [description |-> val(1), entryLinux |-> val(2), entryWin |-> val(3),
         entryMac |-> val(4), git |-> [url |-> val(5), ref |-> val(6)]]

\* C18: the metadata fetched for module a gives every version the fields
\* of its own object, a field absent from it being the empty string, and a
\* binary install of a version downloads the entry URL of that version.
C18_FieldsFromOwnObject ==
    LET shape == ShapeOf(registry.manifest)
        own == [v \in { VersionKeys[i] : i \in 1..Len(shape) } |->
                  Own(shape[CHOOSE i \in 1..Len(shape) : VersionKeys[i] = v], v)]
    IN  /\ ( /\ registry.answer # <<>>
             /\ registry.answer[1].op = "fetchModuleMetadata"
             /\ registry.answer[1].ret.stderr = <<>> ) =>
                registry.answer[1].ret.versions = own
        /\ last.op = "install" =>
              \A i \in 1..Len(last.steps) :
                  last.steps[i][1] = "download" =>
                      last.steps[i][2] = own[last.version].entryLinux

(***************************************************************************)
(* `box install` without a module (src/src/main.cpp).  SpecProject draws   *)
(* the project files of the current directory and follows the command      *)
(* through the installs it makes.                                          *)
(***************************************************************************)
\* lines of a project file of SpecProject
MaxProjectLines == 3

\* std::filesystem::path::extension() of a file name: the part from the
\* last period on; a period that starts the name does not count, and the
\* names "." and ".." have none
Extension(filename) ==
    LET dots == { i \in 2..Len(filename) : filename[i] = "." }
        lastDot == CHOOSE i \in dots : \A j \in dots : i >= j
    IN  IF filename \in {<<".">>, <<".", ".">>} \/ dots = {} THEN <<>>
        ELSE SubSeq(filename, lastDot, Len(filename))

DotQuark == <<".", "q", "u", "a", "r", "k">>

\* the entries of "." for directory_iterator: .quark when it exists and
\* the other files
DirectoryEntries(q, files) ==
    (IF q = <<>> THEN {} ELSE {DotQuark}) \cup DOMAIN files

\* the bytes std::ifstream reads from a file of the current directory
FileBytes(q, files, filename) ==
    IF filename = DotQuark THEN q[1] ELSE files[filename]

NoDeps == [n \in {} |-> <<>>]

\* the loop of parseQuarkDependencies over the lines that are left, deps
\* being the map so far
RECURSIVE ReadDeps(_, _, _)
ReadDeps(lines, inDependencies, deps) ==
    IF lines = <<>> THEN deps
    ELSE LET line == Trimmed(Head(lines))
             eq == Find(line, <<"=">>)
             name == Trimmed(SubSeq(line, 1, eq - 1))
             value == Trimmed(SubSeq(line, eq + 1, Len(line)))
             version == IF /\ Len(value) >= 2
                           /\ value[1] = "\"" /\ value[Len(value)] = "\""
                        THEN SubSeq(value, 2, Len(value) - 1)
                        ELSE value
         IN  IF line = <<>> \/ line[1] = "#"
             THEN ReadDeps(Tail(lines), inDependencies, deps)
             ELSE IF line = DepHeader
             THEN ReadDeps(Tail(lines), TRUE, deps)
             ELSE IF line[1] = "[" /\ line[Len(line)] = "]"
             THEN ReadDeps(Tail(lines), FALSE, deps)
             ELSE IF inDependencies /\ eq # Npos
             THEN ReadDeps(Tail(lines), inDependencies,
                           [n \in DOMAIN deps \cup {name} |->
                              IF n = name THEN version ELSE deps[n]])
             ELSE ReadDeps(Tail(lines), inDependencies, deps)

parseQuarkDependencies(bytes) == ReadDeps(GetLines(bytes), FALSE, NoDeps)

\* the module spec the loop of main builds for one dependency
InstallSpecOf(name, version) ==
    IF version # <<"*">> /\ version # <<>>
    THEN name \o <<"@">> \o version
    ELSE name

\* a variant of the loop that stops at the first install that fails
RECURSIVE installUntilFailure(_, _, _, _, _, _)
installUntilFailure(W, os, st, q, specs, made) ==
    IF specs = <<>> THEN {[store |-> st, quark |-> q, made |-> made]}
    ELSE UNION { LET now == Append(made, <<"install", Head(specs), r.ret>>)
                 IN  IF r.ret
                     THEN installUntilFailure(W, os, r.store, r.quark,
                                              Tail(specs), now)
                     ELSE {[store |-> r.store, quark |-> r.quark,
                            made |-> now]}
                 : r \in install(W, os, st, q, Head(specs), FALSE) }

\* the loop of main over the dependencies that are left: the stores and
\* .quark after the last of them, and the installs made, each
\* <<"install", the module spec, what install returned>>
RECURSIVE installEach(_, _, _, _, _, _)
installEach(W, os, st, q, specs, made) ==
    IF specs = <<>> THEN {[store |-> st, quark |-> q, made |-> made]}
    ELSE UNION { installEach(W, os, r.store, r.quark, Tail(specs),
                             Append(made, <<"install", Head(specs), r.ret>>))
                 : r \in install(W, os, st, q, Head(specs), FALSE) }

\* the installs of `box install`, for a project file of the given bytes
installAll(W, os, st, q, bytes) ==
    LET deps == parseQuarkDependencies(bytes)
        names == InOrder(DOMAIN deps)
    IN  installEach(W, os, st, q,
                    [i \in 1..Len(names) |->
                       InstallSpecOf(names[i], deps[names[i]])],
                    <<>>)

\* the lines a project file is made of
ProjectLines ==
    {DepHeader, <<"[", "o", "]">>, <<"#", " ", "c">>, <<"a", "=", "1">>, <<"a", " ", "=", " ", "*">>, <<"b", "=">>, <<"b", " ", "=", " ", "\"", "9", "\"">>}

ProjectDocs ==
    { PutLines(ls) : ls \in UNION { [1..n -> ProjectLines]
                                      : n \in 0..MaxProjectLines } }

AppQuark == <<"a", "p", "p", ".", "q", "u", "a", "r", "k">>

\* a registry that serves modules a and b, where a download may fail
ProjectWorld ==
    [indexes |-> {IndexAB},
     manifests |-> {<<ManifestOne>>},
     repos |-> {{"native.cpp"}},
     clang |-> {TRUE},
     faults |-> {"download"}]

\* main for `box install`: the first entry of the current directory with
\* extension .quark, in whatever order the directory yields its entries,
\* is parsed and its dependencies are installed
CliInstallAll(W) ==
    LET found == { f \in DirectoryEntries(quark, cwd) :
                     Extension(f) = DotQuark }
    IN  /\ IF found = {}
           THEN /\ last' = [NoCall EXCEPT
                               !.op = "installAll", !.cli = TRUE, !.exit = 1,
                               !.stderr = <<"Error: Module name required or no .quark file found">>]
                /\ UNCHANGED <<store, quark>>
           ELSE \E quarkFile \in found :
                  \E r \in installAll(W, platform, store, quark,
                                      FileBytes(quark, cwd, quarkFile)) :
                     LET successCount ==
                           Cardinality({ i \in 1..Len(r.made) : r.made[i][3] })
                     IN  /\ store' = r.store
                         /\ quark' = r.quark
                         /\ last' = [NoCall EXCEPT
                                !.op = "installAll", !.cli = TRUE,
                                !.name = quarkFile, !.steps = r.made,
                                !.ret = successCount = Len(r.made),
                                !.exit = ExitCode(successCount = Len(r.made))]
        /\ UNCHANGED <<platform, cwd, outFile, registry>>

\* the current directory holds .quark, app.quark or both, and the local
\* store is empty or holds a@1 from an earlier `box install a@1`
InitProject ==
    /\ platform = "Linux"
    /\ store \in {EmptyStore}
                \cup { r.store : r \in { i \in install(QuietWorld, "Linux",
                                                      EmptyStore, <<>>,
                                                      A \o <<"@">> \o V1,
                                                      FALSE) : i.ret } }
    /\ \E doc \in ProjectDocs :
          \/ quark = <<doc>> /\ cwd = NoFiles
          \/ quark = <<>> /\ cwd = (AppQuark :> doc)
          \/ quark = <<doc>> /\ cwd = (AppQuark :> doc)
    /\ last = NoCall
    /\ outFile = <<>>
    /\ registry = NewRegistry

NextProject ==
    \/ Idle /\ CliInstallAll(ProjectWorld)
    \/ \E moduleSpec \in {A \o <<"@">> \o V1} :
          Idle /\ CliInstall(ProjectWorld, moduleSpec)

SpecProject == InitProject /\ [][NextProject]_vars

\* the name and version a line of a project file declares
Declared ==
    (<<"a", "=", "1">> :> <<A, V1>>) @@ (<<"a", " ", "=", " ", "*">> :> <<A, <<"*">>>>)
      @@ (<<"b", "=">> :> <<B, <<>>>>) @@ (<<"b", " ", "=", " ", "\"", "9", "\"">> :> <<B, <<"9">>>>)

\* the lines of a project file that are entries of its [dependencies]
\* section: the nearest header above them is that of the section
SectionEntries(ls) ==
    { i \in 1..Len(ls) :
        /\ ls[i] \in DOMAIN Declared
        /\ \E h \in 1..(i - 1) :
              /\ ls[h] = DepHeader
              /\ \A k \in (h + 1)..(i - 1) : ls[k] # <<"[", "o", "]">> }

\* the dependencies of a project file: name -> version, a later entry of
\* a name replacing an earlier one
Dependencies(ls) ==
    [n \in { Declared[ls[i]][1] : i \in SectionEntries(ls) } |->
        Declared[ls[CHOOSE i \in SectionEntries(ls) :
                       /\ Declared[ls[i]][1] = n
                       /\ \A j \in SectionEntries(ls) :
                             Declared[ls[j]][1] = n => j <= i]][2]]

\* name for the latest version, name@version otherwise
SpecFor(n, version) ==
    IF version \in {<<"*">>, <<>>} THEN n ELSE n \o <<"@">> \o version

\* C19: `box install` makes one local install for every dependency of the
\* project file it found, with the bare name when the version is * or
\* empty and with name@version otherwise, whether or not an earlier one
\* failed, and exits with 0 exactly when all of them returned success.
C19_InstallsEveryDependency ==
    [][ (last'.op = "installAll" /\ last'.name # <<>>) =>
           LET deps == Dependencies(GetLines(FileBytes(quark, cwd, last'.name)))
               made == last'.steps
           IN  /\ Len(made) = Cardinality(DOMAIN deps)
               /\ { made[i][2] : i \in 1..Len(made) }
                    = { SpecFor(n, deps[n]) : n \in DOMAIN deps }
               /\ last'.exit = 0 <=> \A i \in 1..Len(made) : made[i][3]
               /\ last'.exit \in {0, 1}
               /\ store'[TRUE] = store[TRUE]
      ]_vars

\* the first of two dependencies failed and the second was installed
C19_Witness ==
    /\ last.op = "installAll"
    /\ Len(last.steps) = 2
    /\ ~last.steps[1][3] /\ last.steps[2][3]
    /\ last.exit = 1
    /\ store[FALSE][B].lib # <<>>

\* C20: when the current directory holds .quark with dependencies and no
\* other *.quark file, `box install` finds .quark and makes an install for
\* each of its dependencies.
C20_FindsDotQuark ==
    [][ ( /\ last'.op = "installAll"
          /\ quark # <<>> /\ cwd = NoFiles
          /\ DOMAIN Dependencies(GetLines(quark[1])) # {} ) =>
           /\ last'.name = DotQuark
           /\ Len(last'.steps)
                = Cardinality(DOMAIN Dependencies(GetLines(quark[1])))
      ]_vars

(***************************************************************************)
(* The commands of the command line, one process after the other.          *)
(* SpecCli follows `box install`, `box uninstall`, `box update` and        *)
(* `box list` on Linux against a registry that may be out of reach.        *)
(***************************************************************************)
CliWorld ==
    [indexes |-> {IndexNone, IndexAB},
     manifests |-> {<<>>, <<ManifestOne>>},
     repos |-> {{"native.cpp"}},
     clang |-> {TRUE},
     faults |-> {"download", "remove"}]

CliSpecs == {A, A \o <<"@">> \o V1, B}

InitCli ==
    /\ platform = "Linux"
    /\ store = EmptyStore
    /\ quark \in ProjectFiles
    /\ last = NoCall
    /\ cwd = NoFiles
    /\ outFile = <<>>
    /\ registry = NewRegistry

NextCli ==
    \/ \E moduleSpec \in CliSpecs : Idle /\ CliInstall(CliWorld, moduleSpec)
    \/ \E moduleName \in Names : Idle /\ CliUninstall(CliWorld, moduleName)
    \/ \E moduleName \in Names : Idle /\ CliUpdate(CliWorld, moduleName)
    \/ Idle /\ CliList
    \/ Done

SpecCli == InitCli /\ [][NextCli]_vars

\* C21: `box list` prints exactly the names of the modules that are
\* installed in the global store.
C21_ListIsInstalled ==
    last.op = "list" =>
        { last.stdout[i] : i \in 1..Len(last.stdout) }
          = { n \in Names : isInstalled(store, n, TRUE) }

StepRank ==
    [s \in {"index", "mkdir", "download", "library", "mktemp", "clone",
            "checkout", "build", "cleanup", "metadata", "quark"} |->
       CASE s = "index" -> 1
         [] s = "mkdir" -> 2
         [] s \in {"download", "mktemp"} -> 3
         [] s \in {"library", "clone"} -> 4
         [] s = "checkout" -> 5
         [] s = "build" -> 6
         [] s = "cleanup" -> 7
         [] s = "metadata" -> 8
         [] s = "quark" -> 9]

\* C23: the steps of an install follow one another in the order resolve,
\* directory, download or clone, build, metadata, .quark; a directory is
\* created only for a resolved version; and after a step that failed
\* nothing runs but the removal of the temporary directory, so that
\* metadata.json follows a library and the .quark update follows
\* metadata.json.
C23_StepsOrderedAndGated ==
    last.op = "install" =>
        LET s == last.steps
        IN  /\ \A i, j \in 1..Len(s) :
                  i < j => StepRank[s[i][1]] < StepRank[s[j][1]]
            /\ HasStep(last, "mkdir") => last.chosen # <<>>
            /\ \A i, j \in 1..Len(s) :
                  (i < j /\ s[j][1] # "cleanup") => s[i][3]

\* C24: a source build takes .tmpN for the smallest N of 0..9 that is not
\* there, creates no other temporary directory and removes no other; when
\* .tmp0 to .tmp9 are all there it fails without clone or build and leaves
\* them all.
C24_SmallestFreeTmp ==
    [][ last'.op = "install" =>
           LET before == store[last'.global][last'.name].tmp
               after == store'[last'.global][last'.name].tmp
               free == TmpIds \ before
           IN  /\ StepOk(last', "mktemp") =>
                     /\ last'.tmp \in free
                     /\ \A m \in free : last'.tmp <= m
                     /\ after \in {before, before \cup {last'.tmp}}
               /\ ( /\ StepOk(last', "mkdir")
                    /\ last'.chosen[1].git.url # <<>>
                    /\ free = {} ) =>
                     /\ ~last'.ret
                     /\ ~HasStep(last', "mktemp") /\ ~HasStep(last', "clone")
                     /\ ~HasStep(last', "build") /\ ~HasStep(last', "cleanup")
                     /\ after = before
      ]_vars

\* an install has built in .tmp2 beside the .tmp0 and .tmp1 left behind
C24_Witness ==
    /\ last.op = "install" /\ last.ret
    /\ last.tmp = 2
    /\ store[FALSE][A].tmp = {0, 1}

(***************************************************************************)
(* SpecBuild applies the Builder to every source tree and environment of   *)
(* a build, looks for the Runtime root, and installs module a from source  *)
(* on a machine that has native_shim.cpp in none of the candidate places.  *)
(***************************************************************************)
\* the environments of a build, with whether MSYSTEM is set
Environments(os) ==
    [repo : SUBSET RepoFiles, shimFound : BOOLEAN,
     hasClang : IF isWindows(os) THEN {FALSE} ELSE BOOLEAN,
     clFound : BOOLEAN, compileOk : BOOLEAN, opened : BOOLEAN,
     msystem : IF isWindows(os) THEN BOOLEAN ELSE {FALSE}]

ShimlessWorld ==
    [indexes |-> {IndexA},
     manifests |-> {<<ManifestOne>>},
     repos |-> {{"native.cpp"}, {"src/main.cpp"}, {}},
     clang |-> BOOLEAN,
     faults |-> {"noShim", "clone"}]

\* the value of NEUTRON_HOME when it is set
NeutronHome == "/nh"

NeutronDirs ==
    {NeutronHome, "C:\\Program Files\\Neutron", "C:\\Neutron",
     "/mingw64/neutron", "/usr/local/neutron", "/opt/neutron", "~/.neutron",
     ".", ".."}

\* Builder::buildFromSource(a, <checkout>, <install directory>, version)
BuildFromSource ==
    \E env \in Environments(platform) :
        LET b == buildFromSourceIn(platform, EmptyDir, A, VGit.git, V2, env)
        IN  /\ last' = [op |-> "buildFromSource", env |-> env, ret |-> b.ok,
                        dir |-> b.dir, nativeCpp |-> b.nativeCpp,
                        command |-> b.command]
            /\ UNCHANGED <<platform, store, quark, cwd, outFile, registry>>

\* box build native a
CliBuildNative ==
    \E env \in Environments(platform) :
        LET b == buildNative(platform, NoDir, A, V1, env)
        IN  /\ last' = [op |-> "buildNative", env |-> env, ret |-> b.ok,
                        dir |-> b.dir, nativeCpp |-> b.nativeCpp,
                        command |-> b.command]
            /\ UNCHANGED <<platform, store, quark, cwd, outFile, registry>>

\* Builder::findNeutronDir()
FindNeutronDir ==
    \E neutronHome \in {"", NeutronHome}, msystem \in BOOLEAN, home \in BOOLEAN,
       withHeader \in SUBSET NeutronDirs :
        /\ last' = [op |-> "findNeutronDir", neutronHome |-> neutronHome,
                    msystem |-> msystem, home |-> home,
                    withHeader |-> withHeader,
                    ret |-> findNeutronDir(platform, neutronHome, msystem,
                                           home, withHeader)]
        /\ UNCHANGED <<platform, store, quark, cwd, outFile, registry>>

InitBuild ==
    /\ platform \in Platforms
    /\ store = EmptyStore
    /\ quark \in ProjectFiles
    /\ last = NoCall
    /\ cwd = NoFiles
    /\ outFile = <<>>
    /\ registry = NewRegistry

NextBuild ==
    \/ Idle /\ BuildFromSource
    \/ Idle /\ CliBuildNative
    \/ Idle /\ FindNeutronDir
    \/ \E global \in Scopes : Idle /\ Install(ShimlessWorld, A, global)
    \/ Done

SpecBuild == InitBuild /\ [][NextBuild]_vars

\* the steps of a call that worked, by name
Worked(call, step) ==
    \E i \in 1..Len(call.steps) : call.steps[i][1] = step /\ call.steps[i][3]

Took(call, step) ==
    \E i \in 1..Len(call.steps) : call.steps[i][1] = step

\* C25: when native_shim.cpp is in none of the candidate places,
\* buildFromSource and buildNative return false, and an install that gets
\* as far as the build returns false, its build step is not a success, and
\* it neither writes metadata.json nor updates .quark.  (Every install of
\* SpecBuild runs without the shim.)
C25_ShimMissingFails ==
    /\ (last.op \in {"buildFromSource", "buildNative"} /\ ~last.env.shimFound)
          => ~last.ret
    /\ (last.op = "install" /\ Took(last, "build"))
          => /\ ~last.ret
             /\ ~Worked(last, "build")
             /\ ~Took(last, "metadata")
             /\ ~Took(last, "quark")

\* the five places of the native source, in the order of the search
SourceOrder ==
    <<"native.cpp", "src/native.cpp", "src/main.cpp", "source/native.cpp",
      "lib/native.cpp">>

\* C26: a build settles on native.cpp when the source tree holds it, else
\* on the first of src/native.cpp, src/main.cpp, source/native.cpp and
\* lib/native.cpp that it holds, and finds no source only when it holds
\* none of the five; the file it settled on is the file of the compile
\* command.
C26_SourceDiscovery ==
    last.op \in {"buildFromSource", "buildNative"} =>
        /\ last.nativeCpp = FirstExisting(SourceOrder, last.env.repo)
        /\ last.command # <<>> => last.command[1].source = last.nativeCpp

\* the well-known locations of the Runtime on a platform
WellKnown(os, msystem, home) ==
    IF isWindows(os)
    THEN <<"C:\\Program Files\\Neutron", "C:\\Neutron">>
         \o (IF msystem
             THEN <<"/mingw64/neutron", "/usr/local/neutron", "/opt/neutron">>
             ELSE <<>>)
    ELSE <<"/usr/local/neutron", "/opt/neutron">>
         \o (IF home THEN <<"~/.neutron">> ELSE <<>>)

\* C27: findNeutronDir returns the first of $NEUTRON_HOME, the well-known
\* locations of the platform, the current and the parent directory that
\* holds include/core/neutron.h: what it returns holds the header, a
\* candidate without it is passed over, and the result is empty only when
\* no candidate holds it.
C27_HeaderDiscovery ==
    last.op = "findNeutronDir" =>
        /\ last.ret # "" => last.ret \in last.withHeader
        /\ last.ret =
             FirstWithHeader(
               (IF last.neutronHome # "" THEN <<last.neutronHome>> ELSE <<>>)
               \o WellKnown(platform, last.msystem, last.home)
               \o <<".", "..">>,
               last.withHeader)

\* C28: the compiler of a generated command is g++ on Windows when MSYSTEM
\* is set and cl on Windows otherwise; on Linux and macOS it is clang++ when
\* clang++ is on PATH and g++ otherwise; the command follows the MSVC
\* template exactly when its compiler is cl.
C28_ToolchainSelection ==
    (last.op \in {"buildFromSource", "buildNative"} /\ last.command # <<>>) =>
        LET command == last.command[1]
        IN  /\ isWindows(platform) =>
                 command.compiler = IF last.env.msystem THEN "g++" ELSE "cl"
            /\ (isLinux(platform) \/ isMacOS(platform)) =>
                 command.compiler = IF last.env.hasClang THEN "clang++" ELSE "g++"
            /\ command.msvc <=> command.compiler = "cl"

(***************************************************************************)
(* SpecRace: two processes install module a from source into the local     *)
(* store at the same time.  Each has resolved the version and made the     *)
(* install directory; from there a process is followed one file-system or  *)
(* shell call at a time, up to the removal of its temporary directory.     *)
(* last[p] is the call of process p so far: where it is, the attempt of    *)
(* its loop (the number of its temporary directory once made), whether     *)
(* every step so far worked, and what it returns.  The directory records   *)
(* besides the temporary directories those that hold a clone (./repo).     *)
(***************************************************************************)
Procs == {1, 2}

RaceWorld ==
    [indexes |-> {IndexA},
     manifests |-> {<<ManifestOne>>},
     repos |-> {{"native.cpp"}},
     clang |-> {TRUE},
     faults |-> {"clone"}]

\* the temporary directories earlier processes may have left behind
RaceLeft == SUBSET {0, 1}

RaceDir(left) ==
    [exists |-> TRUE, lib |-> <<>>, meta |-> <<>>, tmp |-> left, repo |-> {}]

Installing == [pc |-> "exists", attempt |-> 0, ok |-> TRUE, ret |-> FALSE]

RaceRest == <<platform, quark, cwd, outFile, registry>>

\* while (attempt < 10): std::filesystem::exists(uniqueTempDir)
TmpExists(p) ==
    LET me == last[p]
    IN  /\ me.pc = "exists"
        /\ last' = [last EXCEPT ![p] =
                      IF me.attempt \notin store[FALSE][A].tmp
                      THEN [me EXCEPT !.pc = "create"]
                      ELSE IF me.attempt + 1 >= TmpAttempts
                           THEN [me EXCEPT !.attempt = @ + 1, !.pc = "done",
                                           !.ok = FALSE]
                           ELSE [me EXCEPT !.attempt = @ + 1]]
        /\ UNCHANGED store
        /\ UNCHANGED RaceRest

\* ensureDirectory(uniqueTempDir): create_directories, which also succeeds
\* on a directory that is there
TmpCreate(p) ==
    LET me == last[p]
    IN  /\ me.pc = "create"
        /\ store' = [store EXCEPT ![FALSE][A].tmp = @ \cup {me.attempt}]
        /\ last' = [last EXCEPT ![p].pc = "clone"]
        /\ UNCHANGED RaceRest

\* cd uniqueTempDir && git clone url ./repo: fails without the directory
\* and on a ./repo that is there
TmpClone(p) ==
    LET me == last[p]
        dir == store[FALSE][A]
    IN  /\ me.pc = "clone"
        /\ \E cloned \in (IF me.attempt \in dir.tmp /\ me.attempt \notin dir.repo
                          THEN May(RaceWorld, "clone") ELSE {FALSE}) :
              IF cloned
              THEN /\ store' = [store EXCEPT ![FALSE][A].repo = @ \cup {me.attempt}]
                   /\ last' = [last EXCEPT ![p].pc = "checkout"]
              ELSE /\ last' = [last EXCEPT ![p].pc = "cleanup", ![p].ok = FALSE]
                   /\ UNCHANGED store
        /\ UNCHANGED RaceRest

\* cd repoDir && git checkout ref
TmpCheckout(p) ==
    LET me == last[p]
    IN  /\ me.pc = "checkout"
        /\ last' = [last EXCEPT ![p] =
                      IF me.attempt \in store[FALSE][A].repo
                      THEN [me EXCEPT !.pc = "build"]
                      ELSE [me EXCEPT !.pc = "cleanup", !.ok = FALSE]]
        /\ UNCHANGED store
        /\ UNCHANGED RaceRest

\* builder.buildFromSource(moduleName, repoDir, installDir, version) on
\* what repoDir holds by now
TmpBuild(p) ==
    LET me == last[p]
        dir == store[FALSE][A]
        W == [RaceWorld EXCEPT !.repos = IF me.attempt \in dir.repo
                                         THEN @ ELSE {{}}]
    IN  /\ me.pc = "build"
        /\ \E b \in buildFromSource(W, platform, dir, A, VGit.git, V2) :
              /\ store' = [store EXCEPT ![FALSE][A] = b.dir]
              /\ last' = [last EXCEPT ![p].pc = "cleanup", ![p].ok = b.ok]
        /\ UNCHANGED RaceRest

\* rm -rf uniqueTempDir, then the result
TmpCleanup(p) ==
    LET me == last[p]
    IN  /\ me.pc = "cleanup"
        /\ store' = [store EXCEPT ![FALSE][A].tmp = @ \ {me.attempt},
                                  ![FALSE][A].repo = @ \ {me.attempt}]
        /\ last' = [last EXCEPT ![p].pc = "done", ![p].ret = me.ok]
        /\ UNCHANGED RaceRest

InitRace ==
    /\ platform = "Linux"
    /\ \E left \in RaceLeft :
          store = [EmptyStore EXCEPT ![FALSE][A] = RaceDir(left)]
    /\ quark = <<>>
    /\ last = [p \in Procs |-> Installing]
    /\ cwd = NoFiles
    /\ outFile = <<>>
    /\ registry = NewRegistry

NextRace ==
    \E p \in Procs :
        \/ TmpExists(p)
        \/ TmpCreate(p)
        \/ TmpClone(p)
        \/ TmpCheckout(p)
        \/ TmpBuild(p)
        \/ TmpCleanup(p)

SpecRace == InitRace /\ [][NextRace]_vars

\* process p has made its temporary directory and not yet removed it
Holds(p) == last[p].pc \in {"clone", "checkout", "build", "cleanup"}

\* C29: two interleaved source-build installs of one module into one store
\* never hold the same .tmpN, and the clone a process works on (from its
\* checkout to the end of its build) is still there.
C29_TmpNeverShared ==
    /\ \A p, q \in Procs :
          (p # q /\ Holds(p) /\ Holds(q)) => last[p].attempt # last[q].attempt
    /\ \A p \in Procs :
          last[p].pc \in {"checkout", "build"} =>
              last[p].attempt \in store[FALSE][A].repo

(***************************************************************************)
(* update and the installation it replaces, under Spec.                    *)
(***************************************************************************)
\* the install of the call stopped while resolving the version
ResolveFailed(call) ==
    /\ call.err \in {"Failed to fetch registry index", "Module not found",
                     "Version not found"}
    /\ ~Took(call, "mkdir")

UninstallFailed(call) ==
    \E i \in 1..Len(call.stderr) : call.stderr[i] = "Failed to uninstall"

\* C30 as stated: an update of an installed module whose install fails
\* while resolving returns failure and leaves no directory of the module.
C30_UpdateLosesModule ==
    (last.op = "update" /\ last.wasInstalled /\ ResolveFailed(last)) =>
        /\ ~last.ret
        /\ ~isInstalled(store, last.name, last.global)

\* C30: an update of an installed module whose install fails while
\* resolving returns failure, having called install whether or not the
\* uninstall worked; nothing is put back: unless the uninstall itself
\* failed, the directory of the module no longer exists.
C30_UpdateNoRollback ==
    (last.op = "update" /\ last.wasInstalled /\ ResolveFailed(last)) =>
        /\ ~last.ret
        /\ Took(last, "index")
        /\ ~UninstallFailed(last) => ~isInstalled(store, last.name, last.global)

C30_Witness ==
    /\ last.op = "update" /\ last.wasInstalled /\ ResolveFailed(last)
    /\ last.err = "Version not found"
    /\ ~UninstallFailed(last)
    /\ ~last.ret
    /\ ~isInstalled(store, last.name, last.global)
=============================================================================
